---- MODULE Spec2Model ----
(***************************************************************************)
(* NoBizz / nbs-tech edge function: the request-deduplication and cache    *)
(* orchestration protocol over an expiring key/value store (Upstash Redis) *)
(* and an asynchronous inference provider (Replicate).                     *)
(*                                                                         *)
(* Strings that the code inspects (text, headline, provider output) are    *)
(* sequences of one-character strings, so that trim and substring are      *)
(* computed.  A value that may be null in the code is a sequence of length *)
(* 0 (null) or 1 (the value).                                              *)
(***************************************************************************)
EXTENDS Integers, Sequences, FiniteSets, TLC

\* ------------------------------------------------------- program constants
\* generate-summary.ts:83 and part_005:188, first characters hashed
HashPrefixLen == 300
\* part_005:87, an extraction shorter than this falls back to the snippet
MinExtractLen == 50
\* TTLs in seconds
UrlTtl == 604800
ArticleTtl == 604800
LockTtl == 60
PredictionTtl == 3600

\* ------------------------------------------------------------------ strings
Null == << >>
Some(v) == << v >>
IsNull(x) == Len(x) = 0
Val(x) == x[1]

Str(n, c) == [i \in 1..n |-> c]
IsSpace(c) == c \in {" ", "\n", "\t"}

RECURSIVE TrimStart(_)
TrimStart(s) ==
    IF Len(s) > 0 /\ IsSpace(Head(s)) THEN TrimStart(Tail(s)) ELSE s

RECURSIVE TrimEnd(_)
TrimEnd(s) ==
    IF Len(s) > 0 /\ IsSpace(s[Len(s)])
    THEN TrimEnd(SubSeq(s, 1, Len(s) - 1)) ELSE s

\* String.prototype.trim
Trim(s) == TrimEnd(TrimStart(s))

\* String.prototype.substring(0, n)
Substring(s, n) == SubSeq(s, 1, IF Len(s) < n THEN Len(s) ELSE n)

\* x || y on strings: the empty string is falsy
OrElse(x, y) == IF Len(x) > 0 THEN x ELSE y

\* ------------------------------------------------------------ URL Normalizer
\* A raw URL is represented by what `new URL(url)` makes of it: the host as
\* its labels, the path as its segments (pathname = "/" + segments joined by
\* "/", so a trailing slash is a last segment ""), the query as its
\* parameter names, and whether it carries a fragment.  A string that does
\* not parse has valid = FALSE and is identified by raw.
Url(host, path, query, frag) ==
    [valid |-> TRUE, host |-> host, path |-> path, query |-> query,
     frag |-> frag, raw |-> ""]
BadUrl(raw) ==
    [valid |-> FALSE, host |-> << >>, path |-> << >>, query |-> << >>,
     frag |-> FALSE, raw |-> raw]

\* String.prototype.toLowerCase on a host label
toLowerCase(l) ==
    CASE l = "M" -> "m"
      [] l = "Example" -> "example"
      [] l = "EXAMPLE" -> "example"
      [] l = "COM" -> "com"
      [] OTHER -> l

\* part_005:121-139
trackingParams ==
    {"utm_source", "utm_medium", "utm_campaign", "utm_term", "utm_content",
     "fbclid", "gclid", "ref", "source", "medium", "campaign", "_ga", "_gl",
     "mc_cid", "mc_eid", "igshid", "twclid"}

\* URLSearchParams.delete for every tracking parameter
DeleteParams(query) == SelectSeq(query, LAMBDA q : q \notin trackingParams)

\* pathname.length > 1 && pathname.endsWith('/') -> pathname.slice(0, -1)
StripTrailingSlash(path) ==
    IF Len(path) > 1 /\ path[Len(path)] = ""
    THEN SubSeq(path, 1, Len(path) - 1)
    ELSE path

RemoveAt(s, i) == SubSeq(s, 1, i - 1) \o SubSeq(s, i + 1, Len(s))

\* hostname.replace(/^m\./, '')
StripMobilePrefix(host) ==
    IF Len(host) > 1 /\ host[1] = "m" THEN Tail(host) ELSE host

\* hostname.replace(/\.m\./, '.'): the first interior label "m"
StripMobileInfix(host) ==
    LET idx == {i \in 2..(Len(host) - 1) : host[i] = "m"}
    IN  IF idx = {} THEN host
        ELSE RemoveAt(host, CHOOSE i \in idx : \A j \in idx : i <= j)

\* The four mobilePatterns are applied to the hostname only; /\/mobile\// and
\* /\/m\// cannot match a hostname, which holds no "/".
mobilePatterns(host) == StripMobileInfix(StripMobilePrefix(host))

\* a catch block that answers the empty string
normalizeUrlOrEmpty(url) ==
    IF ~url.valid THEN BadUrl("")
    ELSE Url(mobilePatterns([i \in 1..Len(url.host) |-> toLowerCase(url.host[i])]),
             StripTrailingSlash(url.path),
             DeleteParams(url.query),
             FALSE)

\* part_005:113-174
normalizeUrl(url) ==
    IF ~url.valid THEN url
    ELSE Url(mobilePatterns([i \in 1..Len(url.host) |-> toLowerCase(url.host[i])]),
             StripTrailingSlash(url.path),
             DeleteParams(url.query),
             FALSE)

\* ------------------------------------------------------ Fingerprint Generator
\* SHA-256 of JSON.stringify({url, headline, snippet}) is represented by the
\* object that is hashed (the digest is taken to be collision free).
generateContentHash(normalizedUrl, headline, snippet) ==
    [url |-> normalizedUrl,
     headline |-> Trim(headline),
     snippet |-> Substring(Trim(snippet), HashPrefixLen)]

\* --------------------------------------------------------- Content Extractor
\* The HTML of a request is represented by what extractContent makes of it:
\* blank (empty or whitespace only), the text it extracts, or an exception.
NoHtml == Null
Html(blank, text, throws) ==
    Some([blank |-> blank, text |-> text, throws |-> throws])

extractContentSafe(html, fallbackSnippet) ==
    IF IsNull(html) \/ Val(html).blank
    THEN fallbackSnippet
    ELSE IF Val(html).throws
    THEN fallbackSnippet
    ELSE LET text == Val(html).text
         IN  IF Len(text) < MinExtractLen
                /\ Len(fallbackSnippet) > 0
                /\ Len(fallbackSnippet) > Len(text)
             THEN fallbackSnippet
             ELSE text

\* generate-summary.ts:59-77
ResolveText(body) ==
    IF IsNull(body.html) THEN body.snippet
    ELSE extractContentSafe(body.html, body.snippet)

\* ------------------------------------------------------------------ inputs
Body(url, headline, html, snippet) ==
    [malformed |-> FALSE, url |-> url, headline |-> headline, html |-> html,
     snippet |-> snippet]
MalformedBody ==
    [malformed |-> TRUE, url |-> Null, headline |-> << >>, html |-> NoHtml,
     snippet |-> << >>]

UrlA == Url(<<"example", "com">>, <<"a">>, << >>, FALSE)
\* https://m.Example.com/a/?utm_source=x#top
UrlAMobile == Url(<<"m", "Example", "com">>, <<"a", "">>, <<"utm_source">>, TRUE)
UrlB == Url(<<"example", "com">>, <<"b">>, << >>, FALSE)
UrlNotParsed == BadUrl("not a url")

HeadlineH == <<"H">>
TextS == <<"S", "1">>
TextT == <<" ", "T">>
TextBlank == <<" ">>

\* {url: "https://m.Example.com/a/?utm_source=x#top", headline: "H", snippet: "S1"}
BodyS == Body(Some(UrlAMobile), HeadlineH, NoHtml, TextS)
\* the same URL with other content: HTML that yields no text, snippet " T"
BodyT == Body(Some(UrlA), HeadlineH, Html(FALSE, << >>, FALSE), TextT)
\* blank HTML and a snippet of white space: nothing to summarize
BodyBlank == Body(Some(UrlA), HeadlineH, Html(TRUE, << >>, FALSE), TextBlank)
\* no url
BodyNoUrl == Body(Null, HeadlineH, NoHtml, TextS)

HashOf(body) ==
    generateContentHash(normalizeUrl(Val(body.url)), body.headline,
                        Substring(ResolveText(body), HashPrefixLen))

NoHash == generateContentHash(BadUrl(""), << >>, << >>)
UnknownHash == generateContentHash(BadUrl("unknown-hash-123"), << >>, << >>)

\* fetch-summary?hash=...&url=...
Query(hash, url) == [hash |-> hash, url |-> url]

\* provider outputs of a callback: a string, a sequence of strings, or none
OutputNone == [array |-> FALSE, parts |-> << >>]
OutputStr(s) == [array |-> FALSE, parts |-> << s >>]
OutputArr(ps) == [array |-> TRUE, parts |-> ps]

Outcome(status, output, error) ==
    [status |-> status, output |-> output, error |-> error]
Succeeded(output) == Outcome("succeeded", output, "")
Failed == Outcome("failed", OutputNone, "Model timeout")
StillProcessing == Outcome("processing", OutputNone, "")

\* ---------------------------------------------------- Expiring Key/Value Store
VARIABLES
    redis,      \* the four key spaces: url:, article:, lock:, prediction:
    gen,        \* handleGenerateSummary invocations
    fet,        \* handleFetchSummary invocations
    hook,       \* handleWebhook invocations
    jobs,       \* predictions the provider accepted; the id is the index;
                \* result is the final outcome once a callback has told it,
                \* held whether the lock was in the store at the submission
    now,        \* Date.now()
    nFaults,    \* store transport failures so far
    expired,    \* keys removed by TTL expiry so far
    popup,      \* the extension popup: its React state and its requests
    index       \* calls of the helpers of index.ts: the helper, its argument
                \* and what came of the call

vars == << redis, gen, fet, hook, jobs, now, nFaults, expired, popup, index >>

Key(ns, id) == [ns |-> ns, id |-> id]
urlKey(normalizedUrl) == Key("url", normalizedUrl)
articleKey(hash) == Key("article", hash)
lockKey(hash) == Key("lock", hash)
predictionKey(id) == Key("prediction", id)

Present(key) == key.id \in DOMAIN redis[key.ns]

Put(m, k, v) == [x \in DOMAIN m \cup {k} |-> IF x = k THEN v ELSE m[x]]
Remove(m, k) == [x \in DOMAIN m \ {k} |-> m[x]]

\* a get that answers from the entry although the call failed
getDespiteFailure(key, ok) ==
    IF Present(key) THEN Some(redis[key.ns][key.id].val) ELSE Null

\* Each operation takes ok: whether the REST call to the store succeeded.
\* redis-client.ts:53-61  get: a failure is logged and answered null
get(key, ok) ==
    IF ok /\ Present(key) THEN Some(redis[key.ns][key.id].val) ELSE Null

\* a set that leaves EX out: the entry is written without a TTL
AfterSetWithoutEx(key, value, ttl, ok) ==
    IF ok
    THEN [redis EXCEPT ![key.ns] = Put(@, key.id, [val |-> value, ttl |-> 0])]
    ELSE redis

\* redis-client.ts:63-75  set: a failure is logged and answered false
AfterSet(key, value, ttl, ok) ==
    IF ok
    THEN [redis EXCEPT ![key.ns] = Put(@, key.id, [val |-> value, ttl |-> ttl])]
    ELSE redis

\* setnx without the NX flag: an unconditional SET
setnxWithoutNX(key, ok) == ok

\* redis-client.ts:77-93  setnx: SET key value NX EX ttl, true when it was set;
\* a failure is logged and answered false
setnx(key, ok) == ok /\ ~Present(key)
AfterSetnx(key, value, ttl, ok) ==
    IF setnx(key, ok)
    THEN [redis EXCEPT ![key.ns] = Put(@, key.id, [val |-> value, ttl |-> ttl])]
    ELSE redis

\* redis-client.ts:95-103  del: a failure is logged and answered false
AfterDel(key, ok) ==
    IF ok THEN [redis EXCEPT ![key.ns] = Remove(@, key.id)] ELSE redis

\* the outcomes of one REST call, while at most maxFaults calls fail
Outcomes(maxFaults) == IF nFaults < maxFaults THEN {TRUE, FALSE} ELSE {TRUE}
Fault(ok) == nFaults' = IF ok THEN nFaults ELSE nFaults + 1
Faults(faults, op, ok) == IF ok THEN faults ELSE faults \cup {op}

\* ------------------------------------------------------------------ responses
\* new Response(JSON.stringify({...}), {status: code}); absent fields are null
Response(code, status, error, hash, summary, predictionId) ==
    [code |-> code, status |-> status, error |-> error, hash |-> hash,
     summary |-> summary, predictionId |-> predictionId]
Complete(hash, cachedArticle) ==
    Response(200, "complete", "", Some(hash), cachedArticle, Null)
Pending(hash) == Response(200, "pending", "", Some(hash), Null, Null)
Processing(hash, id) == Response(202, "processing", "", Some(hash), Null, Some(id))
Unknown(hash) == Response(200, "unknown", "", hash, Null, Null)
BadRequest(error) == Response(400, "", error, Null, Null, Null)
InternalError(error) == Response(500, "", error, Null, Null, Null)

\* ------------------------------------------------- Request Orchestrator: generate
\* pc names the store or provider call the invocation is about to make.
\* tried, called and faults record what the invocation has done.
IdleGen ==
    [pc |-> "idle", body |-> MalformedBody, normalizedUrl |-> BadUrl(""),
     text |-> << >>, hash |-> NoHash, existingHash |-> Null,
     cachedArticle |-> Null, lockAcquired |-> FALSE, prediction |-> Null,
     res |-> Null, tried |-> FALSE, called |-> FALSE, faults |-> {}]

\* the handler returns: its response, and its locals are gone
Return(inv, res) ==
    [inv EXCEPT !.pc = "done", !.res = Some(res), !.existingHash = Null,
                !.cachedArticle = Null]

\* generate-summary.ts:124-126  !text || text.trim().length === 0
NoContent(text) == Len(text) = 0 \/ Len(Trim(text)) = 0

\* a fall-through that takes the fingerprint of the URL index entry for the
\* fingerprint of the request
ReuseExistingHash(inv) ==
    LET extractedText == ResolveText(inv.body)
    IN  [inv EXCEPT
           !.pc = "getArticle",
           !.text = OrElse(extractedText, inv.body.snippet),
           !.hash = IF IsNull(inv.existingHash)
                    THEN generateContentHash(
                           inv.normalizedUrl, inv.body.headline,
                           Substring(extractedText, HashPrefixLen))
                    ELSE Val(inv.existingHash)]

\* generate-summary.ts:57-84: resolve the text, compute the hash; the next call
\* is the cache lookup by that hash.  Line 124: text = extractedText ||
\* body.snippet || ''.
ComputeHash(inv) ==
    LET extractedText == ResolveText(inv.body)
    IN  [inv EXCEPT
           !.pc = "getArticle",
           !.text = OrElse(extractedText, inv.body.snippet),
           !.hash = generateContentHash(
                       inv.normalizedUrl, inv.body.headline,
                       Substring(extractedText, HashPrefixLen))]

\* generate-summary.ts:20-36: parse the body, require the url, normalize it,
\* existingHash = await redis.get(urlKey)
GenStart(g, body, ok) ==
    /\ gen[g].pc = "idle"
    /\ \A h \in DOMAIN gen : h < g => gen[h].pc # "idle"
    /\ IF body.malformed
       THEN /\ ok
            /\ gen' = [gen EXCEPT ![g] =
                         Return(@, InternalError("Unexpected token"))]
       ELSE IF IsNull(body.url)
       THEN /\ ok
            /\ gen' = [gen EXCEPT ![g] =
                         Return([@ EXCEPT !.body = body],
                                BadRequest("URL is required"))]
       ELSE LET normalizedUrl == normalizeUrl(Val(body.url))
                existingHash == get(urlKey(normalizedUrl), ok)
                inv == [gen[g] EXCEPT !.body = body,
                                      !.normalizedUrl = normalizedUrl,
                                      !.faults = Faults(@, "get", ok)]
            IN  gen' = [gen EXCEPT ![g] =
                  IF IsNull(existingHash)
                  THEN ComputeHash(inv)
                  ELSE [inv EXCEPT !.pc = "getArticleByUrl",
                                   !.existingHash = existingHash]]
    /\ Fault(ok)
    /\ UNCHANGED << popup, index, redis, fet, hook, jobs, now, expired >>

\* generate-summary.ts:38-55  the fast path through the URL index
GenGetArticleByUrl(g, ok) ==
    /\ gen[g].pc = "getArticleByUrl"
    /\ LET existingHash == Val(gen[g].existingHash)
           cachedArticle == get(articleKey(existingHash), ok)
       IN  gen' = [gen EXCEPT ![g] =
             IF IsNull(cachedArticle)
             THEN ComputeHash([@ EXCEPT !.faults = Faults(@, "get", ok)])
             ELSE Return(@, Complete(existingHash, cachedArticle))]
    /\ Fault(ok)
    /\ UNCHANGED << popup, index, redis, fet, hook, jobs, now, expired >>

\* generate-summary.ts:86-90  cachedArticle = await redis.get(articleKey)
GenGetArticle(g, ok) ==
    /\ gen[g].pc = "getArticle"
    /\ LET cachedArticle == get(articleKey(gen[g].hash), ok)
       IN  gen' = [gen EXCEPT ![g] =
             [@ EXCEPT !.cachedArticle = cachedArticle,
                       !.pc = IF IsNull(cachedArticle) THEN "setnx" ELSE "setUrl",
                       !.faults = Faults(@, "get", ok)]]
    /\ Fault(ok)
    /\ UNCHANGED << popup, index, redis, fet, hook, jobs, now, expired >>

\* generate-summary.ts:93-106  backfill the URL index, answer complete
GenSetUrl(g, ok) ==
    /\ gen[g].pc = "setUrl"
    /\ redis' = AfterSet(urlKey(gen[g].normalizedUrl), gen[g].hash, UrlTtl, ok)
    /\ gen' = [gen EXCEPT ![g] =
         Return([@ EXCEPT !.faults = Faults(@, "set", ok)],
                Complete(gen[g].hash, gen[g].cachedArticle))]
    /\ Fault(ok)
    /\ UNCHANGED << popup, index, fet, hook, jobs, now, expired >>

\* generate-summary.ts:124-135: with the lock held, the text is looked at
AfterLockAcquired(inv) ==
    [inv EXCEPT !.lockAcquired = TRUE,
                !.pc = IF NoContent(inv.text)
                       THEN "delNoContent" ELSE "createPrediction"]

\* a request that goes on to the provider whether or not it got the lock
GenSetnxRegardless(g, ok) ==
    /\ gen[g].pc = "setnx"
    /\ LET lockAcquired == setnx(lockKey(gen[g].hash), ok)
           inv == [gen[g] EXCEPT !.tried = TRUE,
                                 !.faults = Faults(@, "setnx", ok)]
       IN  gen' = [gen EXCEPT ![g] =
             [AfterLockAcquired(inv) EXCEPT !.lockAcquired = lockAcquired]]
    /\ redis' = AfterSetnx(lockKey(gen[g].hash), "1", LockTtl, ok)
    /\ Fault(ok)
    /\ UNCHANGED << popup, index, fet, hook, jobs, now, expired >>

\* generate-summary.ts:109-126  lockAcquired = await redis.setnx(lockKey, '1', 60)
GenSetnx(g, ok) ==
    /\ gen[g].pc = "setnx"
    /\ LET lockAcquired == setnx(lockKey(gen[g].hash), ok)
           inv == [gen[g] EXCEPT !.tried = TRUE,
                                 !.faults = Faults(@, "setnx", ok)]
       IN  gen' = [gen EXCEPT ![g] =
             IF ~lockAcquired
             THEN Return(inv, Pending(inv.hash))
             ELSE AfterLockAcquired(inv)]
    /\ redis' = AfterSetnx(lockKey(gen[g].hash), "1", LockTtl, ok)
    /\ Fault(ok)
    /\ UNCHANGED << popup, index, fet, hook, jobs, now, expired >>

\* generate-summary.ts:126-135  release the lock, answer 400
GenDelNoContent(g, ok) ==
    /\ gen[g].pc = "delNoContent"
    /\ redis' = AfterDel(lockKey(gen[g].hash), ok)
    /\ gen' = [gen EXCEPT ![g] =
         Return([@ EXCEPT !.faults = Faults(@, "del", ok)],
                BadRequest("No content available for summarization"))]
    /\ Fault(ok)
    /\ UNCHANGED << popup, index, fet, hook, jobs, now, expired >>

\* generate-summary.ts:137-140 and replicate-client.ts:55-84: the provider
\* accepts the prediction (a new id) or the call throws.
GenCreatePrediction(g, accepted) ==
    /\ gen[g].pc = "createPrediction"
    /\ IF accepted
       THEN /\ jobs' = Append(jobs, [by |-> g, hash |-> gen[g].hash,
                                      held |-> Present(lockKey(gen[g].hash)),
                                      result |-> Null])
            /\ gen' = [gen EXCEPT ![g] =
                 [@ EXCEPT !.pc = "setPrediction", !.called = TRUE,
                           !.prediction = Some(Len(jobs) + 1)]]
       ELSE /\ jobs' = jobs
            /\ gen' = [gen EXCEPT ![g] =
                 [@ EXCEPT !.pc = "delLockError", !.called = TRUE]]
    /\ UNCHANGED << popup, index, redis, fet, hook, now, nFaults, expired >>

\* an acceptance that releases the lock when it answers processing
GenSetPredictionReleasing(g, ok) ==
    /\ gen[g].pc = "setPrediction"
    /\ redis' = [AfterSet(predictionKey(Val(gen[g].prediction)),
                          [hash |-> gen[g].hash,
                           headline |-> gen[g].body.headline,
                           normalizedUrl |-> gen[g].normalizedUrl],
                          PredictionTtl, ok)
                   EXCEPT !.lock = Remove(@, gen[g].hash)]
    /\ gen' = [gen EXCEPT ![g] =
         Return([@ EXCEPT !.faults = Faults(@, "set", ok)],
                Processing(gen[g].hash, Val(gen[g].prediction)))]
    /\ Fault(ok)
    /\ UNCHANGED << popup, index, fet, hook, jobs, now, expired >>

\* generate-summary.ts:144-159  record the correlation entry, answer processing
GenSetPrediction(g, ok) ==
    /\ gen[g].pc = "setPrediction"
    /\ redis' = AfterSet(predictionKey(Val(gen[g].prediction)),
                         [hash |-> gen[g].hash,
                          headline |-> gen[g].body.headline,
                          normalizedUrl |-> gen[g].normalizedUrl],
                         PredictionTtl, ok)
    /\ gen' = [gen EXCEPT ![g] =
         Return([@ EXCEPT !.faults = Faults(@, "set", ok)],
                Processing(gen[g].hash, Val(gen[g].prediction)))]
    /\ Fault(ok)
    /\ UNCHANGED << popup, index, fet, hook, jobs, now, expired >>

\* a catch block that rethrows without releasing the lock
GenKeepLockError(g, ok) ==
    /\ gen[g].pc = "delLockError"
    /\ ok
    /\ gen' = [gen EXCEPT ![g] =
         Return(@, InternalError("Replicate API error"))]
    /\ UNCHANGED << popup, index, redis, fet, hook, jobs, now, nFaults, expired >>

\* generate-summary.ts:160-172  release the lock, rethrow, answer 500
GenDelLockError(g, ok) ==
    /\ gen[g].pc = "delLockError"
    /\ redis' = AfterDel(lockKey(gen[g].hash), ok)
    /\ gen' = [gen EXCEPT ![g] =
         Return([@ EXCEPT !.faults = Faults(@, "del", ok)],
                InternalError("Replicate API error"))]
    /\ Fault(ok)
    /\ UNCHANGED << popup, index, fet, hook, jobs, now, expired >>

\* one step of one invocation of the handler; every await is a step
handleGenerateSummary(bodies, maxFaults) ==
    \/ \E g \in DOMAIN gen, body \in bodies, ok \in Outcomes(maxFaults) :
          GenStart(g, body, ok)
    \/ \E g \in DOMAIN gen, ok \in Outcomes(maxFaults) : GenGetArticleByUrl(g, ok)
    \/ \E g \in DOMAIN gen, ok \in Outcomes(maxFaults) : GenGetArticle(g, ok)
    \/ \E g \in DOMAIN gen, ok \in Outcomes(maxFaults) : GenSetUrl(g, ok)
    \/ \E g \in DOMAIN gen, ok \in Outcomes(maxFaults) : GenSetnx(g, ok)
    \/ \E g \in DOMAIN gen, ok \in Outcomes(maxFaults) : GenDelNoContent(g, ok)
    \/ \E g \in DOMAIN gen, accepted \in BOOLEAN : GenCreatePrediction(g, accepted)
    \/ \E g \in DOMAIN gen, ok \in Outcomes(maxFaults) : GenSetPrediction(g, ok)
    \/ \E g \in DOMAIN gen, ok \in Outcomes(maxFaults) : GenDelLockError(g, ok)

\* ---------------------------------------------------- Request Orchestrator: fetch
IdleFetch ==
    [pc |-> "idle", query |-> Query(Null, Null), hash |-> Null, res |-> Null,
     faults |-> {}]

FetReturn(inv, res) == [inv EXCEPT !.pc = "done", !.res = Some(res)]

\* part_000:151-178  read the parameters; a hash parameter wins over a url,
\* which is normalized and looked up: hash = await redis.get(urlKey)
FetStart(f, query, ok) ==
    /\ fet[f].pc = "idle"
    /\ \A h \in DOMAIN fet : h < f => fet[h].pc # "idle"
    /\ IF IsNull(query.url) /\ IsNull(query.hash)
       THEN /\ ok
            /\ fet' = [fet EXCEPT ![f] =
                 FetReturn([@ EXCEPT !.query = query],
                   BadRequest("Either url or hash parameter is required"))]
       ELSE IF ~IsNull(query.hash)
       THEN /\ ok
            /\ fet' = [fet EXCEPT ![f] =
                 [@ EXCEPT !.pc = "getArticle", !.query = query,
                           !.hash = query.hash]]
       ELSE LET hash == get(urlKey(normalizeUrl(Val(query.url))), ok)
                inv == [fet[f] EXCEPT !.query = query,
                                      !.faults = Faults(@, "get", ok)]
            IN  fet' = [fet EXCEPT ![f] =
                  IF IsNull(hash)
                  THEN FetReturn(inv, Unknown(Null))
                  ELSE [inv EXCEPT !.pc = "getArticle", !.hash = hash]]
    /\ Fault(ok)
    /\ UNCHANGED << popup, index, redis, gen, hook, jobs, now, expired >>

\* a fetch that releases the lock it finds beside a Cache Entry
FetGetArticleReleasing(f, ok) ==
    /\ fet[f].pc = "getArticle"
    /\ LET hash == Val(fet[f].hash)
           cachedArticle == get(articleKey(hash), ok)
       IN  /\ fet' = [fet EXCEPT ![f] =
                 IF IsNull(cachedArticle)
                 THEN [@ EXCEPT !.pc = "getLock", !.faults = Faults(@, "get", ok)]
                 ELSE FetReturn(@, Complete(hash, cachedArticle))]
           /\ redis' = IF IsNull(cachedArticle) THEN redis
                       ELSE AfterDel(lockKey(hash), TRUE)
    /\ Fault(ok)
    /\ UNCHANGED << popup, index, gen, hook, jobs, now, expired >>

\* a fetch that lets an existing lock decide before it looks at the cache
FetGetArticleUnlessLocked(f, ok) ==
    /\ fet[f].pc = "getArticle"
    /\ LET hash == Val(fet[f].hash)
           cachedArticle == IF Present(lockKey(hash)) THEN Null
                            ELSE get(articleKey(hash), ok)
       IN  fet' = [fet EXCEPT ![f] =
             IF IsNull(cachedArticle)
             THEN [@ EXCEPT !.pc = "getLock", !.faults = Faults(@, "get", ok)]
             ELSE FetReturn(@, Complete(hash, cachedArticle))]
    /\ Fault(ok)
    /\ UNCHANGED << popup, index, redis, gen, hook, jobs, now, expired >>

\* part_000:180-197  cachedArticle = await redis.get(articleKey)
FetGetArticle(f, ok) ==
    /\ fet[f].pc = "getArticle"
    /\ LET hash == Val(fet[f].hash)
           cachedArticle == get(articleKey(hash), ok)
       IN  fet' = [fet EXCEPT ![f] =
             IF IsNull(cachedArticle)
             THEN [@ EXCEPT !.pc = "getLock", !.faults = Faults(@, "get", ok)]
             ELSE FetReturn(@, Complete(hash, cachedArticle))]
    /\ Fault(ok)
    /\ UNCHANGED << popup, index, redis, gen, hook, jobs, now, expired >>

\* a fetch that does not look at the lock
FetGetLockSkipped(f, ok) ==
    /\ fet[f].pc = "getLock"
    /\ ok
    /\ fet' = [fet EXCEPT ![f] = FetReturn(@, Unknown(fet[f].hash))]
    /\ UNCHANGED << popup, index, redis, gen, hook, jobs, now, nFaults, expired >>

\* part_000:199-213  lockExists = await redis.get(lockKey)
FetGetLock(f, ok) ==
    /\ fet[f].pc = "getLock"
    /\ LET hash == Val(fet[f].hash)
           lockExists == get(lockKey(hash), ok)
       IN  fet' = [fet EXCEPT ![f] =
             FetReturn([@ EXCEPT !.faults = Faults(@, "get", ok)],
                       IF IsNull(lockExists)
                       THEN Unknown(Some(hash)) ELSE Pending(hash))]
    /\ Fault(ok)
    /\ UNCHANGED << popup, index, redis, gen, hook, jobs, now, expired >>

handleFetchSummary(queries, maxFaults) ==
    \/ \E f \in DOMAIN fet, query \in queries, ok \in Outcomes(maxFaults) :
          FetStart(f, query, ok)
    \/ \E f \in DOMAIN fet, ok \in Outcomes(maxFaults) : FetGetArticle(f, ok)
    \/ \E f \in DOMAIN fet, ok \in Outcomes(maxFaults) : FetGetLock(f, ok)

\* --------------------------------------------------------- Completion Handler
Payload(id, outcome) ==
    [malformed |-> FALSE, id |-> id, status |-> outcome.status,
     output |-> outcome.output, error |-> outcome.error]
MalformedPayload ==
    [malformed |-> TRUE, id |-> 0, status |-> "", output |-> OutputNone,
     error |-> ""]

\* the id of a prediction this deployment never submitted
UnknownPrediction == 0

\* succeeded and failed are final: a prediction ends with one result
Final(outcome) == outcome.status \in {"succeeded", "failed"}

\* The provider calls back for predictions it accepted, any number of times,
\* and every callback that tells the result of a prediction tells the same
\* result; any other id is unknown to the store.
Payloads(outcomes) ==
    { Payload(id, o) : id \in {UnknownPrediction}, o \in outcomes }
      \cup UNION { { Payload(id, o) :
                       o \in { x \in outcomes :
                                 Final(x) /\ ~IsNull(jobs[id].result)
                                    => x = Val(jobs[id].result) } } :
                   id \in 1..Len(jobs) }
      \cup {MalformedPayload}

\* the result of a prediction, known once a callback has told it
Told(payload) ==
    IF ~payload.malformed /\ payload.id \in 1..Len(jobs)
       /\ payload.status \in {"succeeded", "failed"}
    THEN [jobs EXCEPT ![payload.id].result =
            Some(Outcome(payload.status, payload.output, payload.error))]
    ELSE jobs

\* a test for the presence of an output string, whatever its length
DefinedOutput(output) == output.array \/ Len(output.parts) = 1

\* payload.output as a condition: '' and undefined are falsy, an array is not
Truthy(output) ==
    output.array \/ (Len(output.parts) = 1 /\ Len(output.parts[1]) > 0)

RECURSIVE join(_, _)
join(parts, sep) ==
    IF Len(parts) = 0 THEN << >>
    ELSE IF Len(parts) = 1 THEN parts[1]
    ELSE parts[1] \o sep \o join(Tail(parts), sep)

\* part_001:34-36
SummaryText(output) ==
    IF output.array THEN join(output.parts, <<"\n">>) ELSE output.parts[1]

\* part_001:39-44
ArticleSummary(summaryText, headline, generatedAt) ==
    [summary |-> Trim(summaryText), headline |-> headline,
     model |-> "google-deepmind/gemma-2b", generatedAt |-> generatedAt]

DefaultHeadline == <<"Article Summary">>

\* an acknowledgment that leaves the warning out
HookResponseNoWarning(code, received, stored, warning, error) ==
    [code |-> code, received |-> received, stored |-> stored,
     warning |-> "", error |-> error]

HookResponse(code, received, stored, warning, error) ==
    [code |-> code, received |-> received, stored |-> stored,
     warning |-> warning, error |-> error]

\* branch names the branch of the handler the invocation took
IdleHook ==
    [pc |-> "idle", payload |-> MalformedPayload, predictionData |-> Null,
     summary |-> Null, branch |-> "", res |-> Null, faults |-> {}]

HookReturn(inv, res) == [inv EXCEPT !.pc = "done", !.res = Some(res)]

\* Date.now(): the clock does not go back
Clock(maxNow) == {now} \cup (IF now < maxNow THEN {now + 1} ELSE {})

\* part_001:27-44 and 71-90: with the correlation entry, branch on the outcome
AfterResolve(inv, predictionDataStr, generatedAt) ==
    LET payload == inv.payload
        data == [inv EXCEPT !.predictionData = predictionDataStr]
    IN  IF payload.status = "succeeded" /\ Truthy(payload.output)
        THEN [data EXCEPT
                !.pc = "setArticle", !.branch = "succeeded",
                !.summary = Some(ArticleSummary(
                               SummaryText(payload.output),
                               OrElse(Val(predictionDataStr).headline,
                                      DefaultHeadline),
                               generatedAt))]
        ELSE IF payload.status = "failed"
        THEN [data EXCEPT !.pc = "delLockFailed", !.branch = "failed"]
        ELSE HookReturn([data EXCEPT !.branch = "other"],
                        HookResponse(200, TRUE, FALSE, "", ""))

\* part_001:13-44: payload = await req.json(),
\* predictionDataStr = await redis.get(predictionKey), Date.now()
HookStart(w, payload, ok, generatedAt) ==
    /\ hook[w].pc = "idle"
    /\ \A h \in DOMAIN hook : h < w => hook[h].pc # "idle"
    /\ IF payload.malformed
       THEN /\ ok
            /\ generatedAt = now
            /\ hook' = [hook EXCEPT ![w] =
                 HookReturn([@ EXCEPT !.branch = "error"],
                   HookResponse(500, FALSE, FALSE, "", "Unexpected token"))]
       ELSE LET predictionDataStr == get(predictionKey(payload.id), ok)
                inv == [hook[w] EXCEPT !.payload = payload,
                                       !.faults = Faults(@, "get", ok)]
            IN  IF IsNull(predictionDataStr)
                THEN /\ generatedAt = now
                     /\ hook' = [hook EXCEPT ![w] =
                          HookReturn([inv EXCEPT !.branch = "absent"],
                            HookResponse(200, TRUE, FALSE,
                                         "Unknown prediction ID", ""))]
                ELSE /\ hook' = [hook EXCEPT ![w] =
                          AfterResolve(inv, predictionDataStr, generatedAt)]
                     /\ hook'[w].pc # "setArticle" => generatedAt = now
    /\ now' = generatedAt
    /\ jobs' = Told(payload)
    /\ Fault(ok)
    /\ UNCHANGED << popup, index, redis, gen, fet, expired >>

\* a string as a condition
NonEmptyUrl(url) == url.valid \/ url.raw # ""

\* part_001:46-51  await redis.set(articleKey, JSON.stringify(summary), 604800)
HookSetArticle(w, ok) ==
    /\ hook[w].pc = "setArticle"
    /\ LET data == Val(hook[w].predictionData)
       IN  /\ redis' = AfterSet(articleKey(data.hash), Val(hook[w].summary),
                                ArticleTtl, ok)
           /\ hook' = [hook EXCEPT ![w] =
                [@ EXCEPT !.pc = IF NonEmptyUrl(data.normalizedUrl)
                                 THEN "setUrl" ELSE "delPrediction",
                          !.faults = Faults(@, "set", ok)]]
    /\ Fault(ok)
    /\ UNCHANGED << popup, index, gen, fet, jobs, now, expired >>

\* part_001:52-54  await redis.set(urlKey, hash, 604800)
HookSetUrl(w, ok) ==
    /\ hook[w].pc = "setUrl"
    /\ LET data == Val(hook[w].predictionData)
       IN  redis' = AfterSet(urlKey(data.normalizedUrl), data.hash, UrlTtl, ok)
    /\ hook' = [hook EXCEPT ![w] =
         [@ EXCEPT !.pc = "delPrediction", !.faults = Faults(@, "set", ok)]]
    /\ Fault(ok)
    /\ UNCHANGED << popup, index, gen, fet, jobs, now, expired >>

\* part_001:56-57  await redis.del(predictionKey)
HookDelPrediction(w, ok) ==
    /\ hook[w].pc = "delPrediction"
    /\ redis' = AfterDel(predictionKey(hook[w].payload.id), ok)
    /\ hook' = [hook EXCEPT ![w] =
         [@ EXCEPT !.pc = "delLock", !.faults = Faults(@, "del", ok)]]
    /\ Fault(ok)
    /\ UNCHANGED << popup, index, gen, fet, jobs, now, expired >>

\* part_001:59-68  await redis.del(lockKey); answer stored: true
HookDelLock(w, ok) ==
    /\ hook[w].pc = "delLock"
    /\ redis' = AfterDel(lockKey(Val(hook[w].predictionData).hash), ok)
    /\ hook' = [hook EXCEPT ![w] =
         HookReturn([@ EXCEPT !.faults = Faults(@, "del", ok)],
                    HookResponse(200, TRUE, TRUE, "", ""))]
    /\ Fault(ok)
    /\ UNCHANGED << popup, index, gen, fet, jobs, now, expired >>

\* part_001:71-76  await redis.del(lockKey)
HookDelLockFailed(w, ok) ==
    /\ hook[w].pc = "delLockFailed"
    /\ redis' = AfterDel(lockKey(Val(hook[w].predictionData).hash), ok)
    /\ hook' = [hook EXCEPT ![w] =
         [@ EXCEPT !.pc = "delPredictionFailed", !.faults = Faults(@, "del", ok)]]
    /\ Fault(ok)
    /\ UNCHANGED << popup, index, gen, fet, jobs, now, expired >>

\* part_001:78-84  await redis.del(predictionKey); answer with the error
HookDelPredictionFailed(w, ok) ==
    /\ hook[w].pc = "delPredictionFailed"
    /\ redis' = AfterDel(predictionKey(hook[w].payload.id), ok)
    /\ hook' = [hook EXCEPT ![w] =
         HookReturn([@ EXCEPT !.faults = Faults(@, "del", ok)],
                    HookResponse(200, TRUE, FALSE, "", hook[w].payload.error))]
    /\ Fault(ok)
    /\ UNCHANGED << popup, index, gen, fet, jobs, now, expired >>

handleWebhook(outcomes, maxFaults, maxNow) ==
    \/ \E w \in DOMAIN hook, payload \in Payloads(outcomes),
          ok \in Outcomes(maxFaults), generatedAt \in Clock(maxNow) :
          HookStart(w, payload, ok, generatedAt)
    \/ \E w \in DOMAIN hook, ok \in Outcomes(maxFaults) : HookSetArticle(w, ok)
    \/ \E w \in DOMAIN hook, ok \in Outcomes(maxFaults) : HookSetUrl(w, ok)
    \/ \E w \in DOMAIN hook, ok \in Outcomes(maxFaults) : HookDelPrediction(w, ok)
    \/ \E w \in DOMAIN hook, ok \in Outcomes(maxFaults) : HookDelLock(w, ok)
    \/ \E w \in DOMAIN hook, ok \in Outcomes(maxFaults) : HookDelLockFailed(w, ok)
    \/ \E w \in DOMAIN hook, ok \in Outcomes(maxFaults) :
          HookDelPredictionFailed(w, ok)

\* ------------------------------------------------------------------- expiry
Namespaces == {"url", "article", "lock", "prediction"}
NExpired == Cardinality(expired.url) + Cardinality(expired.article)
              + Cardinality(expired.lock) + Cardinality(expired.prediction)

\* The store removes an entry when its TTL lapses.
Expire(maxExpiry) ==
    /\ NExpired < maxExpiry
    /\ \E ns \in Namespaces : \E id \in DOMAIN redis[ns] :
         /\ redis' = [redis EXCEPT ![ns] = Remove(@, id)]
         /\ expired' = [expired EXCEPT ![ns] = @ \cup {id}]
    /\ UNCHANGED << popup, index, gen, fet, hook, jobs, now, nFaults >>

\* --------------------------------------------------------------- specification
EmptyMap == [x \in {} |-> 0]

\* ------------------------------------------------------------ extension popup
\* The popup's React state (loading, summary, error, hash), the state of its
\* usePolling hook (pollData, pollError), the position of its startGeneration
\* (step), the generate invocation that serves its request (call), the fetch
\* invocations that serve the polls it has issued with the hash each was
\* issued for (polls), and the polls whose outcome it has taken (taken).
IdlePopup ==
    [loading |-> "extracting", summary |-> Null, error |-> Null, hash |-> Null,
     pollData |-> Null, pollError |-> Null, step |-> "extracting", call |-> 0,
     polls |-> EmptyMap, taken |-> {}]

\* response.summary as a condition
HasSummary(res) == ~IsNull(res.summary) /\ Len(Val(res.summary).summary) > 0

\* response.ok
IsOk(res) == res.code \in 200..299

\* part_010:104-141: the effect on pollData, pollError, loading, shouldPoll
PollingEffect(p) ==
    LET q == IF IsNull(p.pollData) THEN p
             ELSE IF Val(p.pollData).status = "complete"
                     /\ HasSummary(Val(p.pollData))
             THEN [p EXCEPT !.summary = p.pollData, !.loading = "idle",
                            !.hash = Null]
             ELSE IF Val(p.pollData).status = "unknown"
             THEN [p EXCEPT
                     !.error = Some("Summary not found. Please try again."),
                     !.loading = "idle", !.hash = Null]
             ELSE p
    IN  IF ~IsNull(p.pollError) /\ p.loading = "polling"
        THEN [q EXCEPT !.error = p.pollError]
        ELSE q

\* the effect runs after a render that changed one of its dependencies, and
\* again after the render that its own state changes cause
Render(p) == PollingEffect(PollingEffect(p))

\* the next invocation the server has not begun to serve
NextIdle(invs) == {i \in DOMAIN invs : invs[i].pc = "idle"
                                       /\ \A j \in DOMAIN invs :
                                             j < i => invs[j].pc # "idle"}

\* part_010:36-56: extractPageContent, then the generate request is sent
PopupExtract(extracted) ==
    /\ popup.step = "extracting"
    /\ IF extracted
       THEN \E g \in NextIdle(gen) :
               popup' = Render([popup EXCEPT !.loading = "generating",
                                             !.step = "generating",
                                             !.call = g])
       ELSE popup' = Render([popup EXCEPT
                               !.error = Some("Failed to extract page content"),
                               !.loading = "idle", !.step = "rest"])
    /\ UNCHANGED << redis, gen, fet, hook, jobs, now, nFaults, expired, index >>

\* part_010:56-98 and api.ts:78-106: the answer to the generate request
AfterGenerate(p, res) ==
    IF ~IsOk(res)
    THEN [p EXCEPT !.error = Some(res.error), !.loading = "idle"]
    ELSE IF res.status = "complete" /\ HasSummary(res)
    THEN [p EXCEPT !.summary = Some(res), !.loading = "idle"]
    ELSE IF res.status = "processing" /\ ~IsNull(res.hash)
    THEN [p EXCEPT !.hash = res.hash, !.loading = "polling"]
    ELSE [p EXCEPT !.error = Some("Unexpected response from server"),
                   !.loading = "idle"]

PopupGenerated(delivered) ==
    /\ popup.step = "generating"
    /\ IF delivered
       THEN /\ gen[popup.call].pc = "done"
            /\ popup' = Render([AfterGenerate(popup, Val(gen[popup.call].res))
                                  EXCEPT !.step = "rest"])
       ELSE popup' = Render([popup EXCEPT !.error = Some("Failed to fetch"),
                                          !.loading = "idle", !.step = "rest"])
    /\ UNCHANGED << redis, gen, fet, hook, jobs, now, nFaults, expired, index >>

\* part_009:24-73: while hash is set and loading is polling, poll() runs at
\* once and every two seconds; it clears the hook's error and sends a fetch
PopupPoll ==
    /\ popup.loading = "polling"
    /\ ~IsNull(popup.hash)
    /\ \E f \in NextIdle(fet) :
          /\ f \notin DOMAIN popup.polls
          /\ \A j \in DOMAIN fet : j < f => j \in DOMAIN popup.polls
          /\ popup' = Render([popup EXCEPT
                                !.polls = Put(@, f, Val(popup.hash)),
                                !.pollError = Null])
    /\ UNCHANGED << redis, gen, fet, hook, jobs, now, nFaults, expired, index >>

\* part_009:34-50 and api.ts:137-165: the outcome of a poll, whenever it
\* comes: setData(response), or setError when the request failed
PopupPolled(f, delivered) ==
    /\ f \in DOMAIN popup.polls
    /\ f \notin popup.taken
    /\ IF delivered
       THEN /\ fet[f].pc = "done"
            /\ LET res == Val(fet[f].res)
               IN  popup' = Render(
                     IF IsOk(res)
                     THEN [popup EXCEPT !.pollData = Some(res),
                                        !.taken = @ \cup {f}]
                     ELSE [popup EXCEPT !.pollError = Some(res.error),
                                        !.taken = @ \cup {f}])
       ELSE popup' = Render([popup EXCEPT !.pollError = Some("Failed to fetch"),
                                          !.taken = @ \cup {f}])
    /\ UNCHANGED << redis, gen, fet, hook, jobs, now, nFaults, expired, index >>

\* part_010:143-186: the retry button, shown with the error when loading is
\* idle; pressed here only when no startGeneration is under way
PopupRetry ==
    /\ ~IsNull(popup.error)
    /\ popup.loading = "idle"
    /\ popup.step = "rest"
    /\ popup' = Render([popup EXCEPT !.error = Null, !.summary = Null,
                                     !.hash = Null, !.loading = "extracting",
                                     !.step = "extracting"])
    /\ UNCHANGED << redis, gen, fet, hook, jobs, now, nFaults, expired, index >>

\* api.ts:127-147: a poll is a fetch by the hash it was issued for
PopupFetch(maxFaults) ==
    \E f \in DOMAIN fet, ok \in Outcomes(maxFaults) :
        /\ f \in DOMAIN popup.polls
        /\ FetStart(f, Query(Some(popup.polls[f]), Null), ok)

IndexPopup ==
    \/ \E extracted \in BOOLEAN : PopupExtract(extracted)
    \/ \E delivered \in BOOLEAN : PopupGenerated(delivered)
    \/ PopupPoll
    \/ \E f \in DOMAIN fet, delivered \in BOOLEAN : PopupPolled(f, delivered)
    \/ PopupRetry

\* ------------------------------------------------------------ Request routing
\* A path is a sequence of pieces: "/", "?", one of the three route names, or
\* "x", a character that occurs in none of the names; a route name can
\* therefore occur in the joined text only as one of its pieces.
Routes == {"generate-summary", "fetch-summary", "webhook"}

\* part_004:21-23: /\/(generate-summary|fetch-summary|webhook)(?:\?|$)/ matches
\* at i: a slash, a route name, then a question mark or the end of the text
MatchesAt(path, i) ==
    /\ i + 1 <= Len(path)
    /\ path[i] = "/"
    /\ path[i + 1] \in Routes
    /\ (i + 2 > Len(path) \/ path[i + 2] = "?")

\* the mutant of extractRoute: the pattern without its (?:\?|$) ending
extractRouteUnanchored(path) ==
    LET at == {i \in 1..Len(path) :
                  /\ i + 1 <= Len(path)
                  /\ path[i] = "/"
                  /\ path[i + 1] \in Routes}
    IN  IF at = {} THEN Null
        ELSE Some(path[(CHOOSE i \in at : \A j \in at : i <= j) + 1])

\* part_004:20-25: String.match returns the leftmost match, its first group
\* is the route name; no match gives null
extractRoute(path) ==
    LET at == {i \in 1..Len(path) : MatchesAt(path, i)}
    IN  IF at = {} THEN Null
        ELSE Some(path[(CHOOSE i \in at : \A j \in at : i <= j) + 1])

\* String.prototype.includes
Includes(s, sub) ==
    \E i \in 0..(Len(s) - Len(sub)) : SubSeq(s, i + 1, i + Len(sub)) = sub

MustBeSet == << "m", "u", "s", "t", " ", "b", "e", " ", "s", "e", "t" >>
ConfigurationErrorPrefix ==
    << "C", "o", "n", "f", "i", "g", "u", "r", "a", "t", "i", "o", "n", " ",
       "e", "r", "r", "o", "r", ":", " " >>

\* what a call comes to: a value returned or an error thrown
Returned(value) == [thrown |-> FALSE, value |-> value]
Thrown(error) == [thrown |-> TRUE, value |-> error]

\* the mutant of handleConfigurationError: every error is reported as a
\* configuration error
handleConfigurationErrorAlways(error) ==
    Returned([status |-> 500,
              contentType |-> "application/json",
              error |-> ConfigurationErrorPrefix \o error.message])

\* part_004:27-35
handleConfigurationError(error) ==
    IF Includes(error.message, MustBeSet)
    THEN Returned([status |-> 500,
                   contentType |-> "application/json",
                   error |-> ConfigurationErrorPrefix \o error.message])
    ELSE Thrown(error)

\* a call of a helper of index.ts that has not been made yet
IdleIndex == [called |-> "", arg |-> Null, outcome |-> Null]

\* part_004:88: const route = extractRoute(path)
ExtractRoute(k, path) ==
    /\ index[k].called = ""
    /\ \A j \in DOMAIN index : j < k => index[j].called # ""
    /\ index' = [index EXCEPT ![k] =
                    [called |-> "extractRoute", arg |-> Some(path),
                     outcome |-> Some(Returned(extractRoute(path)))]]
    /\ UNCHANGED << redis, gen, fet, hook, jobs, now, nFaults, expired, popup >>

\* part_004:105-107, 123-125, 141-143: catch (error) { return
\* handleConfigurationError(error as Error) }
HandleConfigurationError(k, error) ==
    /\ index[k].called = ""
    /\ \A j \in DOMAIN index : j < k => index[j].called # ""
    /\ index' = [index EXCEPT ![k] =
                    [called |-> "handleConfigurationError", arg |-> Some(error),
                     outcome |-> Some(handleConfigurationError(error))]]
    /\ UNCHANGED << redis, gen, fet, hook, jobs, now, nFaults, expired, popup >>

\* calls of the helpers of index.ts in one behaviour
MaxCalls == 1

\* the state of a deployment that has served nothing yet, with the given
\* numbers of invocations to come
InitOf(gens, fetches, hooks) ==
    /\ redis = [ns \in Namespaces |-> EmptyMap]
    /\ gen = [g \in 1..gens |-> IdleGen]
    /\ fet = [f \in 1..fetches |-> IdleFetch]
    /\ hook = [w \in 1..hooks |-> IdleHook]
    /\ jobs = << >>
    /\ now = 0
    /\ nFaults = 0
    /\ expired = [ns \in Namespaces |-> {}]
    /\ popup = IdlePopup
    /\ index = [k \in 1..MaxCalls |-> IdleIndex]

\* ------------------------------------------------------------------ bounds
\* generate-summary requests
MaxGen == 2
\* fetch-summary requests
MaxFetch == 1
\* provider callbacks
MaxHook == 1
\* store transport failures in one behaviour
MaxFaults == 1
\* TTL expiries in one behaviour
MaxExpiry == 1
\* readings of Date.now() that advance it
MaxNow == 1

Bodies == {BodyS, BodyT, BodyBlank, BodyNoUrl, MalformedBody}
Queries ==
    {Query(Some(HashOf(BodyS)), Null), Query(Null, Some(UrlAMobile)),
     Query(Null, Null)}
HookOutcomes ==
    {Succeeded(OutputStr(<<"R">>)),
     Succeeded(OutputArr(<< <<"Q">>, <<" ">> >>)),
     Succeeded(OutputStr(<< >>)), Failed, StillProcessing}

Init == InitOf(MaxGen, MaxFetch, MaxHook)

Next ==
    \/ handleGenerateSummary(Bodies, MaxFaults)
    \/ handleFetchSummary(Queries, MaxFaults)
    \/ handleWebhook(HookOutcomes, MaxFaults, MaxNow)
    \/ Expire(MaxExpiry)

Spec == Init /\ [][Next]_vars

\* ------------------------------------------------- concurrent deliveries
\* Three generate requests and two callbacks against a store that answers
\* every call and loses nothing to expiry.
RaceGen == 3
RaceHook == 2
RaceFaults == 0
RaceNow == 0

RaceBodies == {BodyS, BodyBlank}
RaceOutcomes ==
    {Succeeded(OutputStr(<<"R">>)),
     Succeeded(OutputArr(<< <<"Q">>, <<" ">> >>)), Failed}

InitRace == InitOf(RaceGen, 0, RaceHook)

NextRace ==
    \/ handleGenerateSummary(RaceBodies, RaceFaults)
    \/ handleWebhook(RaceOutcomes, RaceFaults, RaceNow)

SpecRace == InitRace /\ [][NextRace]_vars

\* ------------------------------------------------------------------- history
\* what the claims speak of, read off the invocations
Started(inv) == inv.pc # "idle"
Done(inv) == inv.pc = "done"
Answered(inv, status) == Done(inv) /\ Val(inv.res).status = status
AnsweredCode(inv, code) == Done(inv) /\ Val(inv.res).code = code

\* the hashes that generate requests have computed
Computed == {gen[g].hash : g \in DOMAIN gen} \ {NoHash}
GensOf(F) == {g \in DOMAIN gen : gen[g].hash = F}
JobsOf(F) == {j \in 1..Len(jobs) : jobs[j].hash = F}

\* a callback for a prediction of F has reached the webhook handler
Delivered(F) ==
    \E w \in DOMAIN hook :
        /\ Started(hook[w])
        /\ ~hook[w].payload.malformed
        /\ hook[w].payload.id \in JobsOf(F)

\* no callback for F delivered yet and the lock of F has not expired
BeforeCallback(F) == ~Delivered(F) /\ F \notin expired.lock

\* ----------------------------------------------------------------------- C1
\* C1 as stated: for a fresh fingerprint F, among the generate requests that
\* compute F before the first callback and before the lock's TTL lapses,
\* exactly one is answered processing, every other one pending with F, and
\* createPrediction is invoked at most once.  Read here in its most favourable
\* form: once all of them have returned, no store call has failed and the text
\* is not empty.
C1_AsStated ==
    \A F \in Computed :
        ( /\ BeforeCallback(F)
          /\ nFaults = 0
          /\ \A g \in GensOf(F) : Done(gen[g]) /\ ~NoContent(gen[g].text) )
        => /\ Cardinality({g \in GensOf(F) : Answered(gen[g], "processing")}) = 1
           /\ \A g \in GensOf(F) :
                \/ Answered(gen[g], "processing")
                \/ Val(gen[g].res) = Pending(F)
           /\ Cardinality({g \in GensOf(F) : gen[g].called}) <= 1

\* C1 amended: before the first callback for F and before the lock's TTL
\* lapses, at most one request that computed F is answered processing and the
\* provider accepted at most one prediction for F; every other request is
\* answered pending with F or with an error (400 for an empty text, 500 for a
\* rejected submission); when none is answered with an error and no
\* conditional set failed in transport, exactly one is answered processing;
\* createPrediction is invoked only by requests whose conditional set succeeded.
C1_AtMostOneProcessing ==
    \A F \in Computed :
        BeforeCallback(F) =>
          /\ Cardinality({g \in GensOf(F) : Answered(gen[g], "processing")}) <= 1
          /\ Cardinality(JobsOf(F)) <= 1
          /\ \A g \in GensOf(F) :
               /\ gen[g].called => gen[g].lockAcquired
               /\ Done(gen[g]) =>
                    \/ /\ ~IsNull(gen[g].prediction)
                       /\ Val(gen[g].res) = Processing(F, Val(gen[g].prediction))
                    \/ Val(gen[g].res) = Pending(F)
                    \/ /\ AnsweredCode(gen[g], 400)
                       /\ NoContent(gen[g].text)
                    \/ /\ AnsweredCode(gen[g], 500)
                       /\ gen[g].called
                       /\ IsNull(gen[g].prediction)
          /\ ( /\ \A g \in GensOf(F) :
                    /\ Done(gen[g])
                    /\ Val(gen[g].res).error = ""
                    /\ "setnx" \notin gen[g].faults )
             => Cardinality({g \in GensOf(F) :
                               Answered(gen[g], "processing")}) = 1

\* two requests computed the same F: one is answered processing, one pending
C1_Witness ==
    \E F \in Computed :
        /\ BeforeCallback(F)
        /\ \E g, h \in GensOf(F) :
             /\ Answered(gen[g], "processing")
             /\ Done(gen[h])
             /\ Val(gen[h].res) = Pending(F)

\* ----------------------------------------------------------------------- C2
\* a callback for prediction j has been taken up by the webhook handler
Handled(j) ==
    \E w \in DOMAIN hook :
        /\ Started(hook[w])
        /\ ~hook[w].payload.malformed
        /\ hook[w].payload.id = j

\* the predictions for F that the provider accepted and for which no callback
\* has been taken up yet
Outstanding(F) == {j \in JobsOf(F) : ~Handled(j)}

\* C2 as stated: while no Dedup Lock has been removed by TTL expiry, every
\* fingerprint has at most one accepted prediction whose callback has not
\* been handled, under any interleaving of generate requests, callbacks,
\* duplicate deliveries and provider failures.  A callback counts as handled
\* as soon as the handler has read its correlation entry.
C2_AsStated ==
    expired.lock = {} =>
        \A F \in Computed : Cardinality(Outstanding(F)) <= 1

\* ----------------------------------------------------------------------- C3
\* C3 as stated: while a Cache Entry article:F is present no step changes
\* its stored value.
C3_AsStated ==
    [][ \A F \in DOMAIN redis.article :
          F \in DOMAIN redis'.article
             => redis'.article[F].val = redis.article[F].val ]_vars

\* ----------------------------------------------------------------------- C4
\* w2 is a later delivery of the callback that w1 took through the succeeded
\* or the failed branch (invocations start in the order of their index)
Redelivery(w1, w2) ==
    /\ w1 < w2
    /\ Started(hook[w1])
    /\ Started(hook[w2])
    /\ hook[w1].branch \in {"succeeded", "failed"}
    /\ hook[w2].payload = hook[w1].payload

\* C4 as stated: the second delivery of a callback, sequentially after or
\* concurrently with the first, takes the absent-correlation branch (so it
\* does not write the Cache Entry again) and is not answered with an error.
C4_AsStated ==
    \A w1, w2 \in DOMAIN hook :
        Redelivery(w1, w2) =>
          /\ hook[w2].branch = "absent"
          /\ Done(hook[w2]) => Val(hook[w2].res).code = 200

\* ----------------------------------------------------------------------- C5
\* the handler has answered stored: true
Stored(inv) == Done(inv) /\ Val(inv.res).stored

\* C5 as stated: once the Completion Handler has answered stored: true for
\* a succeeded callback whose Correlation Entry was present, a fetch that
\* looks up the Cache Entry of that fingerprint (the store answering the
\* read) is answered complete, as long as the Cache Entry has not expired.
C5_AsStated ==
    [][ \A w \in DOMAIN hook : \A f \in DOMAIN fet :
          ( /\ Stored(hook[w])
            /\ Val(hook[w].predictionData).hash \notin expired.article
            /\ fet[f].pc = "getArticle"
            /\ fet[f].hash = Some(Val(hook[w].predictionData).hash)
            /\ fet'[f] # fet[f]
            /\ nFaults' = nFaults )
          => /\ fet'[f].pc = "done"
             /\ Val(fet'[f].res).status = "complete" ]_vars

\* ----------------------------------------------------------------------- C6
\* C6 as stated: handling a failed callback whose Correlation Entry is
\* present leaves the Dedup Lock absent when the handler has deleted it,
\* leaves the Correlation Entry absent when the handler answers, and the
\* answer is a success status that carries the provider's error.
C6_AsStated ==
    [][ \A w \in DOMAIN hook :
          /\ ( hook[w].pc = "delLockFailed" /\ hook'[w] # hook[w] )
             => Val(hook[w].predictionData).hash \notin DOMAIN redis'.lock
          /\ ( hook[w].pc = "delPredictionFailed" /\ hook'[w] # hook[w] )
             => /\ hook[w].payload.id \notin DOMAIN redis'.prediction
                /\ hook'[w].pc = "done"
                /\ Val(hook'[w].res) =
                      HookResponse(200, TRUE, FALSE, "", hook[w].payload.error)
      ]_vars

\* ----------------------------------------------------------------------- C7
\* the value stored under article:F
Article(F) == Some(redis.article[F].val)

\* a step of invocation i of the handlers in h during which the store
\* answered
Answers(h, i) == h'[i] # h[i] /\ nFaults' = nFaults

\* C7: a fetch or a generate whose lookup of article:F finds the entry is
\* answered complete with the entry's data, whether or not lock:F exists;
\* such a generate goes on to nothing but the URL index write: it neither
\* tries the lock nor calls the provider.
C7_CacheAuthoritative ==
    [][ /\ \A f \in DOMAIN fet :
             ( /\ fet[f].pc = "getArticle"
               /\ Answers(fet, f)
               /\ Present(articleKey(Val(fet[f].hash))) )
             => /\ fet'[f].pc = "done"
                /\ Val(fet'[f].res) =
                      Complete(Val(fet[f].hash), Article(Val(fet[f].hash)))
        /\ \A g \in DOMAIN gen :
             /\ ( /\ gen[g].pc = "getArticleByUrl"
                  /\ Answers(gen, g)
                  /\ Present(articleKey(Val(gen[g].existingHash))) )
                => /\ gen'[g].pc = "done"
                   /\ Val(gen'[g].res) =
                         Complete(Val(gen[g].existingHash),
                                  Article(Val(gen[g].existingHash)))
                   /\ ~gen'[g].tried /\ ~gen'[g].called
             /\ ( /\ gen[g].pc = "getArticle"
                  /\ Answers(gen, g)
                  /\ Present(articleKey(gen[g].hash)) )
                => /\ gen'[g].pc = "setUrl"
                   /\ gen'[g].cachedArticle = Article(gen[g].hash)
             /\ ( gen[g].pc = "setUrl" /\ gen'[g] # gen[g] )
                => /\ gen'[g].pc = "done"
                   /\ Val(gen'[g].res) =
                         Complete(gen[g].hash, gen[g].cachedArticle)
                   /\ ~gen'[g].tried /\ ~gen'[g].called
                   /\ redis'.lock = redis.lock
                   /\ jobs' = jobs ]_vars

\* a fetch and a generate have both been answered complete for a fingerprint
\* whose lock still exists
C7_Witness ==
    \E f \in DOMAIN fet, g \in DOMAIN gen :
        /\ Answered(fet[f], "complete")
        /\ Answered(gen[g], "complete")
        /\ Val(fet[f].res).hash = Val(gen[g].res).hash
        /\ Present(lockKey(Val(Val(fet[f].res).hash)))

\* ----------------------------------------------------------------------- C8
\* C8 as stated: a generate whose resolved text is empty after all fallbacks
\* is answered with a validation error and has neither attempted the lock
\* nor called the provider.
C8_AsStated ==
    \A g \in DOMAIN gen :
        ( gen[g].hash # NoHash /\ NoContent(gen[g].text) )
        => /\ ~gen[g].tried
           /\ ~gen[g].called
           /\ Done(gen[g]) => AnsweredCode(gen[g], 400)

\* ----------------------------------------------------------------------- C9
\* the provider rejected the submission of this invocation
Rejected(inv) == inv.called /\ IsNull(inv.prediction)

Writes == {"set", "setnx", "del"}

\* C10 as stated: a handler that met a transport failure of the store on
\* set, setIfAbsent or delete ends with an internal error.
C10_AsStated ==
    /\ \A g \in DOMAIN gen :
          ( Done(gen[g]) /\ gen[g].faults \cap Writes # {} )
          => AnsweredCode(gen[g], 500)
    /\ \A w \in DOMAIN hook :
          ( Done(hook[w]) /\ hook[w].faults \cap Writes # {} )
          => Val(hook[w].res).code = 500

\* ---------------------------------------------------------------------- C11
\* a step of invocation i of the handlers in h during which the store call
\* failed in transport
Fails(h, i) == h'[i] # h[i] /\ nFaults' = nFaults + 1

\* C11: a get that fails in transport is answered like an absent key and
\* never with an error: generate goes on to compute the fingerprint (after a
\* failed URL index or fast-path read) or to the conditional set (after a
\* failed cache read), fetch answers unknown or goes on to read the lock,
\* the Completion Handler takes the unknown-job branch; the store is left as
\* it was, and no step with a failed read serves a summary.
C11_GetFailureIsAbsent ==
    [][ /\ \A g \in DOMAIN gen :
             ( Fails(gen, g) /\ gen[g].pc \in {"idle", "getArticleByUrl", "getArticle"} )
             => /\ gen'[g].pc = IF gen[g].pc = "getArticle" THEN "setnx"
                                ELSE "getArticle"
                /\ gen[g].pc # "getArticle" => gen'[g].hash # NoHash
                /\ IsNull(gen'[g].res)
                /\ IsNull(gen'[g].cachedArticle)
                /\ redis' = redis
        /\ \A f \in DOMAIN fet :
             Fails(fet, f)
             => /\ fet[f].pc = "idle" => Val(fet'[f].res) = Unknown(Null)
                /\ fet[f].pc = "getArticle" => fet'[f].pc = "getLock"
                /\ fet[f].pc = "getLock"
                      => Val(fet'[f].res) = Unknown(fet[f].hash)
                /\ redis' = redis
        /\ \A w \in DOMAIN hook :
             ( Fails(hook, w) /\ hook[w].pc = "idle" )
             => /\ hook'[w].branch = "absent"
                /\ Val(hook'[w].res) =
                     HookResponse(200, TRUE, FALSE, "Unknown prediction ID", "")
                /\ redis' = redis ]_vars

\* a callback was answered as for an unknown prediction although its
\* Correlation Entry is in the store, and a fetch was answered unknown
\* although the fingerprint's lock is in the store
C11_Witness ==
    \/ \E w \in DOMAIN hook :
         /\ Done(hook[w])
         /\ hook[w].branch = "absent"
         /\ "get" \in hook[w].faults
         /\ Present(predictionKey(hook[w].payload.id))
    \/ \E f \in DOMAIN fet :
         /\ Answered(fet[f], "unknown")
         /\ "get" \in fet[f].faults
         /\ ~IsNull(fet[f].hash)
         /\ Present(lockKey(Val(fet[f].hash)))

\* ---------------------------------------------------------------------- C12
\* C12 as stated: every invocation of the callback endpoint is answered with
\* a 2xx status, whatever the payload (a malformed body included) and
\* whatever the store does.
C12_AsStated ==
    \A w \in DOMAIN hook : Done(hook[w]) => Val(hook[w].res).code = 200

\* ---------------------------------------------------------------------- C13
\* invocation w of the webhook handler takes up a callback in this step
TakesUp(w) ==
    hook[w].pc = "idle" /\ hook'[w].pc # "idle" /\ ~hook'[w].payload.malformed

\* C13: a callback whose jobId has no Correlation Entry is answered 200 with
\* received: true and the warning, in the one step that reads the store, and
\* the four key spaces are left as they were, whatever the outcome and the
\* output of the callback; an invocation that has answered does nothing more.
C13_UnknownJobNoEffect ==
    [][ \A w \in DOMAIN hook :
          /\ ( TakesUp(w) /\ ~Present(predictionKey(hook'[w].payload.id)) )
             => /\ hook'[w].pc = "done"
                /\ Val(hook'[w].res) =
                     [code |-> 200, received |-> TRUE, stored |-> FALSE,
                      warning |-> "Unknown prediction ID", error |-> ""]
                /\ redis' = redis
          /\ hook[w].pc = "done" => hook'[w] = hook[w] ]_vars

\* a succeeded callback with output for a jobId without Correlation Entry has
\* been answered, the store holding a lock at the time
C13_Witness ==
    \E w \in DOMAIN hook :
        /\ Done(hook[w])
        /\ hook[w].branch = "absent"
        /\ hook[w].faults = {}
        /\ hook[w].payload.status = "succeeded"
        /\ hook[w].payload.output = OutputStr(<<"R">>)
        /\ DOMAIN redis.lock # {}

\* ---------------------------------------------------------------------- C14
\* the outcome of the callback is neither succeeded with output nor failed
NothingToDo(payload) ==
    \/ payload.status \notin {"succeeded", "failed"}
    \/ /\ payload.status = "succeeded"
       /\ payload.output \in {OutputNone, OutputStr(<< >>)}

Reads(key) == IF nFaults' = nFaults /\ Present(key) THEN redis[key.ns][key.id].val
              ELSE "nothing"
ReadsNothing(key) == nFaults' # nFaults \/ ~Present(key)

\* C15: fetch answers by what it reads.  Without a hash parameter, a URL
\* whose index entry it does not read is answered unknown (without hash);
\* with a fingerprint, the Cache Entry it reads is answered complete with
\* the entry; else the lock it reads is answered pending; else unknown.  A
\* request with a url or a hash parameter gets no other answer.
C15_FetchByWhatItReads ==
    [][ \A f \in DOMAIN fet :
          /\ ( fet[f].pc = "idle" /\ fet'[f].pc # "idle"
                 /\ IsNull(fet'[f].query.hash) /\ ~IsNull(fet'[f].query.url) )
             => LET key == urlKey(normalizeUrl(Val(fet'[f].query.url)))
                IN  IF ReadsNothing(key)
                    THEN fet'[f].res = Some(Unknown(Null))
                    ELSE /\ fet'[f].pc = "getArticle"
                         /\ fet'[f].hash = Some(Reads(key))
          /\ ( fet[f].pc = "idle" /\ fet'[f].pc # "idle"
                 /\ ~IsNull(fet'[f].query.hash) )
             => /\ fet'[f].pc = "getArticle"
                /\ fet'[f].hash = fet'[f].query.hash
          /\ ( fet[f].pc = "getArticle" /\ fet'[f] # fet[f] )
             => LET key == articleKey(Val(fet[f].hash))
                IN  IF ReadsNothing(key)
                    THEN fet'[f].pc = "getLock" /\ fet'[f].hash = fet[f].hash
                    ELSE fet'[f].res =
                           Some(Complete(Val(fet[f].hash), Some(Reads(key))))
          /\ ( fet[f].pc = "getLock" /\ fet'[f] # fet[f] )
             => fet'[f].res =
                   Some(IF ReadsNothing(lockKey(Val(fet[f].hash)))
                        THEN Unknown(fet[f].hash)
                        ELSE Pending(Val(fet[f].hash)))
          /\ ( fet'[f].pc = "done"
                 /\ ~(IsNull(fet'[f].query.hash) /\ IsNull(fet'[f].query.url)) )
             => /\ Val(fet'[f].res).code = 200
                /\ Val(fet'[f].res).status \in {"complete", "pending", "unknown"}
      ]_vars

\* a fetch by URL has resolved the fingerprint through the URL index and
\* been answered pending, every read answered by the store
C15_Witness ==
    \E f \in DOMAIN fet :
        /\ Answered(fet[f], "pending")
        /\ IsNull(fet[f].query.hash)
        /\ fet[f].faults = {}

\* ---------------------------------------------------------------------- C16
\* C16: no step of a fetch creates, overwrites or deletes a Cache Entry, a
\* Dedup Lock or a Correlation Entry.
C16_FetchReadOnly ==
    [][ \A f \in DOMAIN fet :
          fet'[f] # fet[f]
          => /\ redis'.article = redis.article
             /\ redis'.lock = redis.lock
             /\ redis'.prediction = redis.prediction ]_vars

\* a fetch has been answered complete and the lock of the fingerprint, which
\* it found beside the Cache Entry, is still in the store
C16_Witness ==
    \E f \in DOMAIN fet :
        /\ Answered(fet[f], "complete")
        /\ fet[f].faults = {}
        /\ Present(lockKey(Val(fet[f].hash)))
        /\ Present(articleKey(Val(fet[f].hash)))

\* ---------------------------------------------------------------------- C17
\* the store as this step leaves it answers a fetch by url with complete,
\* the fingerprint hash and the summary article: the URL index entry of the
\* normalized url names hash, and article:hash holds article
ServesComplete(url, hash, article) ==
    LET U == normalizeUrl(url)
    IN  /\ U \in DOMAIN redis'.url
        /\ Some(redis'.url[U].val) = hash
        /\ Val(hash) \in DOMAIN redis'.article
        /\ Some(redis'.article[Val(hash)].val) = article

\* C17 as stated: when a generate for a URL is answered complete, through
\* the URL index or through the fingerprint lookup and its backfill, the
\* store is left such that a fetch by that URL, issued next and with its
\* reads answered, is answered complete with the same fingerprint and
\* summary.  Read with no entry lost to TTL expiry so far.
C17_AsStated ==
    [][ \A g \in DOMAIN gen :
          ( /\ gen[g].pc # "done"
            /\ gen'[g].pc = "done"
            /\ Val(gen'[g].res).status = "complete"
            /\ NExpired = 0 )
          => ServesComplete(Val(gen'[g].body.url), Val(gen'[g].res).hash,
                            Val(gen'[g].res).summary) ]_vars

\* ---------------------------------------------------------------------- C18
\* C18: when the URL index entry read by a generate names a fingerprint
\* whose Cache Entry it does not read, the generate is not answered in that
\* step: it computes the fingerprint of its own content and goes on to the
\* cache lookup by that fingerprint (from where the lock step follows),
\* leaving the store as it was; a fetch by URL in that situation goes on to
\* the lock and is answered pending or unknown.
C18_DanglingUrlIndex ==
    [][ /\ \A g \in DOMAIN gen :
             ( /\ gen[g].pc = "getArticleByUrl"
               /\ gen'[g] # gen[g]
               /\ ReadsNothing(articleKey(Val(gen[g].existingHash))) )
             => /\ gen'[g].pc = "getArticle"
                /\ gen'[g].hash = HashOf(gen[g].body)
                /\ IsNull(gen'[g].res)
                /\ redis' = redis
        /\ \A f \in DOMAIN fet :
             ( IsNull(fet[f].query.hash) /\ fet'[f] # fet[f] )
             => /\ ( /\ fet[f].pc = "getArticle"
                     /\ ReadsNothing(articleKey(Val(fet[f].hash))) )
                   => fet'[f].pc = "getLock"
                /\ fet[f].pc = "getLock"
                   => /\ Val(fet'[f].res).code = 200
                      /\ Val(fet'[f].res).status \in {"pending", "unknown"}
      ]_vars

\* with every store call answered: a generate that read a URL index entry
\* without Cache Entry has gone on to acquire the lock, and a fetch by the
\* URL, resolved through the index, has been answered pending
C18_Witness ==
    /\ nFaults = 0
    /\ \E g \in DOMAIN gen :
         /\ ~IsNull(gen[g].existingHash)
         /\ gen[g].pc = "createPrediction"
    /\ \E f \in DOMAIN fet :
         /\ IsNull(fet[f].query.hash)
         /\ Answered(fet[f], "pending")

\* ---------------------------------------------------------------------- C19
\* {url: "https://example.com/b", headline: "H", snippet: "S1"}: the content
\* of BodyS at another URL
BodyU == Body(Some(UrlB), HeadlineH, NoHtml, TextS)

\* Two generate requests and one callback, the same content at two URLs,
\* against a store that answers every call and loses nothing to expiry.
ShareGen == 2
ShareHook == 1
ShareFaults == 0
ShareNow == 0

ShareBodies == {BodyS, BodyU, BodyBlank}
ShareOutcomes == {Succeeded(OutputStr(<<"R">>)), Failed}

InitShare == InitOf(ShareGen, 0, ShareHook)

NextShare ==
    \/ handleGenerateSummary(ShareBodies, ShareFaults)
    \/ handleWebhook(ShareOutcomes, ShareFaults, ShareNow)

SpecShare == InitShare /\ [][NextShare]_vars

\* the headline and the first 300 characters of the text of a request
Content(body) ==
    [headline |-> body.headline,
     text |-> Substring(ResolveText(body), HashPrefixLen)]

\* C19: two generate requests that computed a fingerprint, with different
\* normalized URLs and the same headline and first 300 characters of text,
\* computed the same fingerprint (and so share one lock and one Cache Entry).
C19_AsStated ==
    \A g, h \in DOMAIN gen :
        ( /\ gen[g].hash # NoHash
          /\ gen[h].hash # NoHash
          /\ gen[g].normalizedUrl # gen[h].normalizedUrl
          /\ Content(gen[g].body) = Content(gen[h].body) )
        => gen[g].hash = gen[h].hash

\* ---------------------------------------------------------------------- C20
\* generate-summary.ts:111-137: the invocation holds the lock and is ended
\* (crash or hang) before the provider is called and before any release; it
\* answers nothing and takes no further step.
Stop(g) ==
    /\ gen[g].lockAcquired
    /\ gen[g].pc \in {"createPrediction", "delNoContent"}
    /\ gen' = [gen EXCEPT ![g] = [@ EXCEPT !.pc = "stopped"]]
    /\ UNCHANGED << popup, index, redis, fet, hook, jobs, now, nFaults, expired >>

\* an entry written without EX: it never lapses
Persist(key) ==
    /\ FALSE
    /\ UNCHANGED vars

\* redis-client.ts:77-93  SET key value NX EX ttl: the store removes the entry
\* when the TTL lapses
TtlLapse(key) ==
    /\ Present(key)
    /\ redis[key.ns][key.id].ttl > 0
    /\ redis' = [redis EXCEPT ![key.ns] = Remove(@, key.id)]
    /\ expired' = [expired EXCEPT ![key.ns] = @ \cup {key.id}]
    /\ UNCHANGED << popup, index, gen, fet, hook, jobs, now, nFaults >>

\* Three generate requests, any of which may stop while it holds the lock,
\* and one callback, against a store that answers every call.  Of the four
\* TTLs only the lock's (60 s) lapses, and a lock that stays lapses.
CrashGen == 3
CrashHook == 1
CrashFaults == 0
CrashNow == 0

CrashBodies == {BodyS, BodyBlank}
CrashHashes == {HashOf(body) : body \in CrashBodies}
CrashOutcomes == {Succeeded(OutputStr(<<"R">>)), Failed}

InitCrash == InitOf(CrashGen, 0, CrashHook)

NextCrash ==
    \/ handleGenerateSummary(CrashBodies, CrashFaults)
    \/ handleWebhook(CrashOutcomes, CrashFaults, CrashNow)
    \/ \E g \in DOMAIN gen : Stop(g)
    \/ \E F \in CrashHashes : TtlLapse(lockKey(F))

SpecCrash ==
    /\ InitCrash
    /\ [][NextCrash]_vars
    /\ \A F \in CrashHashes : WF_vars(TtlLapse(lockKey(F)))

\* a request stopped while it held the lock for F
StoppedOn(F) ==
    \E c \in DOMAIN gen : gen[c].pc = "stopped" /\ gen[c].hash = F

\* C20: a request that stopped holding the lock for F leads to the lock for
\* F being absent; a generate for F that comes to the lock step is answered
\* pending while the lock is there (or when the store does not answer) and
\* acquires it once it is absent; and a
\* generate that acquired the lock is answered processing when the provider
\* accepted the job, 500 when it did not, 400 when there is no text.
C20_CrashBoundedByTtl ==
    /\ \A c \in 1..CrashGen :
          (gen[c].pc = "stopped") ~> ~Present(lockKey(gen[c].hash))
    /\ [][ \A g \in DOMAIN gen :
             ( /\ gen[g].pc = "setnx"
               /\ gen'[g] # gen[g]
               /\ StoppedOn(gen[g].hash) )
             => IF Present(lockKey(gen[g].hash)) \/ Fails(gen, g)
                THEN /\ Answered(gen'[g], "pending")
                     /\ redis' = redis
                ELSE /\ gen'[g].lockAcquired
                     /\ gen[g].hash \in DOMAIN redis'.lock
                     /\ ~Done(gen'[g])
         ]_vars
    /\ [](\A g \in 1..CrashGen :
            (Done(gen[g]) /\ gen[g].lockAcquired)
            => IF NoContent(gen[g].text)
               THEN AnsweredCode(gen[g], 400)
               ELSE IF IsNull(gen[g].prediction)
               THEN AnsweredCode(gen[g], 500)
               ELSE Answered(gen[g], "processing"))

\* one request stopped holding the lock for F, another was answered pending,
\* the lock lapsed, and a third acquired it and was answered processing
C20_Witness ==
    \E c, p, g \in DOMAIN gen :
        /\ c < p /\ p < g
        /\ gen[c].pc = "stopped"
        /\ gen[c].hash \in expired.lock
        /\ gen[p].hash = gen[c].hash
        /\ Answered(gen[p], "pending")
        /\ gen[g].hash = gen[c].hash
        /\ gen[g].lockAcquired
        /\ Answered(gen[g], "processing")

\* C20 as stated: after a request stopped holding the lock for F and that
\* lock lapsed, a generate for F issued from then on that acquires the lock
\* is answered processing.
C20_AsStated ==
    \A c, g \in 1..CrashGen :
        []( ( /\ gen[c].pc = "stopped"
              /\ Present(lockKey(gen[c].hash)) )
            => []( ( /\ ~Present(lockKey(gen[c].hash))
                     /\ gen[g].pc = "idle" )
                   => [](( /\ Done(gen[g])
                           /\ gen[g].hash = gen[c].hash
                           /\ gen[g].lockAcquired )
                         => Answered(gen[g], "processing")) ) )

\* ---------------------------------------------------------------------- C21
\* Two generate requests, two fetches and at most one callback, against a
\* store that answers every call.  Of the four TTLs only the lock's (60 s)
\* lapses, and a lock that stays lapses.
LapseGen == 2
LapseFetch == 2
LapseHook == 1
LapseFaults == 0
LapseNow == 0

LapseBodies == {BodyS, BodyBlank}
LapseHashes == {HashOf(body) : body \in LapseBodies}
LapseOutcomes == {Succeeded(OutputStr(<<"R">>)), Failed}

InitLapse == InitOf(LapseGen, LapseFetch, LapseHook)

NextLapse ==
    \/ handleGenerateSummary(LapseBodies, LapseFaults)
    \/ handleFetchSummary(Queries, LapseFaults)
    \/ handleWebhook(LapseOutcomes, LapseFaults, LapseNow)
    \/ \E F \in LapseHashes : TtlLapse(lockKey(F))

SpecLapse ==
    /\ InitLapse
    /\ [][NextLapse]_vars
    /\ \A F \in LapseHashes : WF_vars(TtlLapse(lockKey(F)))

\* generate has answered processing for F and no callback for a job of F
\* has reached the handler
InFlight(F) ==
    /\ \E g \in DOMAIN gen : gen[g].hash = F /\ Answered(gen[g], "processing")
    /\ ~Delivered(F)

\* C21: once generate has answered processing for F, and while no callback
\* for F has been handled: the lock stays until its TTL lapses, and lapses;
\* a fetch by F finds no Cache Entry and is answered pending while the lock
\* has not lapsed and unknown once it has (unknown also when its read of the
\* lock fails); a generate for F that then comes to the lock step acquires
\* it (pending when the store does not answer), and one that acquired the
\* lock is answered processing when the provider accepted the job, 500 when
\* it did not, 400 when there is no text.
C21_PendingUntilLapse ==
    /\ \A g \in 1..LapseGen :
          Answered(gen[g], "processing")
             ~> (Delivered(gen[g].hash) \/ ~Present(lockKey(gen[g].hash)))
    /\ [](\A F \in LapseHashes :
            (InFlight(F) /\ F \notin expired.lock) => Present(lockKey(F)))
    /\ [][ \A f \in DOMAIN fet :
             ( /\ fet'[f] # fet[f]
               /\ ~IsNull(fet[f].query.hash)
               /\ InFlight(Val(fet[f].hash)) )
             => /\ fet[f].pc = "getArticle" => fet'[f].pc = "getLock"
                /\ fet[f].pc = "getLock"
                   => Val(fet'[f].res) =
                        IF Present(lockKey(Val(fet[f].hash))) /\ ~Fails(fet, f)
                        THEN Pending(Val(fet[f].hash))
                        ELSE Unknown(fet[f].hash)
         ]_vars
    /\ [][ \A g \in DOMAIN gen :
             ( /\ gen[g].pc = "setnx"
               /\ gen'[g] # gen[g]
               /\ InFlight(gen[g].hash)
               /\ ~Present(lockKey(gen[g].hash)) )
             => IF Fails(gen, g)
                THEN Answered(gen'[g], "pending")
                ELSE /\ gen'[g].lockAcquired
                     /\ gen[g].hash \in DOMAIN redis'.lock
         ]_vars
    /\ [](\A g \in 1..LapseGen :
            (Done(gen[g]) /\ gen[g].lockAcquired /\ InFlight(gen[g].hash))
            => IF NoContent(gen[g].text)
               THEN AnsweredCode(gen[g], 400)
               ELSE IF IsNull(gen[g].prediction)
               THEN AnsweredCode(gen[g], 500)
               ELSE Answered(gen[g], "processing"))

\* generate answered processing for F and no callback came; a fetch by F was
\* answered pending; the lock lapsed; a fetch by F was answered unknown and
\* a second generate for F acquired the lock and was answered processing
C21_Witness ==
    \E F \in LapseHashes :
        /\ InFlight(F)
        /\ F \in expired.lock
        /\ \E f, u \in DOMAIN fet :
              /\ fet[f].query.hash = Some(F)
              /\ Answered(fet[f], "pending")
              /\ fet[u].query.hash = Some(F)
              /\ Answered(fet[u], "unknown")
        /\ \E g, n \in DOMAIN gen :
              /\ g < n
              /\ gen[g].hash = F /\ Answered(gen[g], "processing")
              /\ gen[n].hash = F /\ Answered(gen[n], "processing")

\* C21 as stated: after generate answered processing for F, with no callback
\* handled and the lock lapsed, a new generate for F that acquires the lock
\* is answered processing.
C21_AsStated ==
    \A g, n \in 1..LapseGen :
        []( ( /\ Answered(gen[g], "processing")
              /\ ~Delivered(gen[g].hash)
              /\ gen[g].hash \in expired.lock
              /\ ~Present(lockKey(gen[g].hash))
              /\ gen[n].pc = "idle" )
            => [](( /\ Done(gen[n])
                    /\ gen[n].hash = gen[g].hash
                    /\ gen[n].lockAcquired
                    /\ ~Delivered(gen[g].hash) )
                  => Answered(gen[n], "processing")) )

\* ---------------------------------------------------------------------- C22
\* the callback taken up by w is late: the lock of its fingerprint has lapsed
Late(w) == Val(hook[w].predictionData).hash \in expired.lock

\* C22 as stated: a succeeded callback with output whose Correlation Entry
\* is present and whose lock has lapsed is honored: the handler's write
\* leaves the Cache Entry of its fingerprint in the store, holding the
\* summary, whether or not the lock has been acquired again.
C22_AsStated ==
    [][ \A w \in DOMAIN hook :
          ( /\ hook[w].pc = "setArticle"
            /\ hook'[w] # hook[w]
            /\ Late(w) )
          => LET F == Val(hook[w].predictionData).hash
             IN  /\ F \in DOMAIN redis'.article
                 /\ redis'.article[F].val = Val(hook[w].summary)
      ]_vars

\* ---------------------------------------------------------------------- C23
\* {url: "not a url", headline: "H", snippet: "S1"}
BodyRaw == Body(Some(UrlNotParsed), HeadlineH, NoHtml, TextS)

\* Two generate requests and one callback for a url that does not parse,
\* against a store that answers every call and loses nothing to expiry.
RawGen == 2
RawHook == 1
RawFaults == 0
RawNow == 0

RawBodies == {BodyRaw, BodyBlank}
RawOutcomes == {Succeeded(OutputStr(<<"R">>)), Failed}

InitRaw == InitOf(RawGen, 0, RawHook)

NextRaw ==
    \/ handleGenerateSummary(RawBodies, RawFaults)
    \/ handleWebhook(RawOutcomes, RawFaults, RawNow)

SpecRaw == InitRaw /\ [][NextRaw]_vars

\* the request of g carries a url that does not parse
Unparsed(inv) ==
    /\ ~inv.body.malformed
    /\ ~IsNull(inv.body.url)
    /\ ~Val(inv.body.url).valid

\* C23: for a url that does not parse, normalizeUrl returns the string
\* unchanged and the request is not failed: the URL index is read under that
\* string, the fingerprint is computed from it, the Correlation Entry
\* records it and the URL index is written under it.
C23_UnparsedUrlKept ==
    /\ [][ \A g \in DOMAIN gen :
             ( gen[g].pc = "idle" /\ gen'[g] # gen[g] /\ Unparsed(gen'[g]) )
             => LET url == Val(gen'[g].body.url)
                IN  /\ gen'[g].normalizedUrl = url
                    /\ IsNull(gen'[g].res)
                    /\ IF Present(urlKey(url)) /\ ~Fails(gen, g)
                       THEN /\ gen'[g].pc = "getArticleByUrl"
                            /\ gen'[g].existingHash = Some(redis.url[url].val)
                       ELSE /\ gen'[g].pc = "getArticle"
                            /\ gen'[g].hash.url = url
         ]_vars
    /\ [](\A g \in 1..RawGen :
            (Unparsed(gen[g]) /\ Done(gen[g]))
            => /\ ~AnsweredCode(gen[g], 400)
               /\ gen[g].called \/ ~AnsweredCode(gen[g], 500))
    /\ [](\A F \in DOMAIN redis.article :
            ~F.url.valid =>
               \A N \in DOMAIN redis.url :
                  redis.url[N].val = F => N = F.url)

\* a request with the url "not a url" was answered processing, its job
\* completed, the URL index holds the string, and a second request with that
\* url was answered complete through the URL index
C23_Witness ==
    /\ Present(urlKey(UrlNotParsed))
    /\ redis.url[UrlNotParsed].val = HashOf(BodyRaw)
    /\ \E g, h \in DOMAIN gen :
          /\ Unparsed(gen[g]) /\ Answered(gen[g], "processing")
          /\ gen[g].hash = HashOf(BodyRaw)
          /\ Unparsed(gen[h]) /\ Answered(gen[h], "complete")
          /\ gen[h].hash = NoHash

\* ---------------------------------------------------------------------- C24
\* The URL normalizer, as the first step of a generate request applies it,
\* over a set of well-formed URLs: hosts in upper and lower case with and
\* without the mobile labels, paths with and without a trailing slash and
\* the mobile segments, queries with and without tracking parameters, with
\* and without a fragment.
UrlGen == 1

UrlHosts ==
    {<<"example", "com">>, <<"Example", "COM">>, <<"m", "example", "com">>,
     <<"M", "example", "com">>, <<"www", "m", "example", "com">>,
     <<"m", "m", "example", "com">>}
UrlPaths ==
    {<< >>, <<"a">>, <<"a", "">>, <<"a", "b", "">>, <<"mobile", "a">>,
     <<"m", "a">>}
UrlQueries ==
    {<< >>, <<"id">>, <<"utm_source">>, <<"utm_id">>, <<"medium">>,
     <<"id", "fbclid", "page">>, <<"ref", "source", "campaign", "gclid">>,
     <<"_ga", "igshid", "id">>}
UrlInputs ==
    {Url(host, path, query, frag) :
        host \in UrlHosts, path \in UrlPaths, query \in UrlQueries,
        frag \in BOOLEAN}
UrlBodies == {Body(Some(url), HeadlineH, NoHtml, TextS) : url \in UrlInputs}

InitUrl == InitOf(UrlGen, 0, 0)

\* generate-summary.ts:20-36: const normalizedUrl = normalizeUrl(body.url)
NextUrl ==
    \E g \in DOMAIN gen, body \in UrlBodies, ok \in Outcomes(0) :
        GenStart(g, body, ok)

SpecUrl == InitUrl /\ [][NextUrl]_vars

\* the names of the inputs that begin with utm_
UtmPrefixed ==
    {"utm_source", "utm_medium", "utm_campaign", "utm_term", "utm_content",
     "utm_id"}
\* the known tracking parameters: every utm_-prefixed name and the fixed
\* names (fbclid, gclid, ref, source, campaign, the analytics click-ids)
KnownTracking == UtmPrefixed \cup trackingParams

\* a request whose url parsed and was normalized
Normalized(inv) ==
    /\ Started(inv)
    /\ ~inv.body.malformed
    /\ ~IsNull(inv.body.url)
    /\ Val(inv.body.url).valid

\* C24 as stated: for a well-formed URL the output has a lowercase host, no
\* fragment, no utm_-prefixed or otherwise known tracking parameter and every
\* other parameter in place, and the path of the input without its single
\* trailing slash (the root left alone).
C24_AsStated ==
    \A g \in DOMAIN gen :
        Normalized(gen[g]) =>
           LET url == Val(gen[g].body.url)
               out == gen[g].normalizedUrl
           IN  /\ out.valid
               /\ \A i \in 1..Len(out.host) :
                     out.host[i] = toLowerCase(out.host[i])
               /\ ~out.frag
               /\ out.query =
                    SelectSeq(url.query, LAMBDA q : q \notin KnownTracking)
               /\ out.path =
                    IF Len(url.path) > 1 /\ url.path[Len(url.path)] = ""
                    THEN SubSeq(url.path, 1, Len(url.path) - 1)
                    ELSE url.path

\* ---------------------------------------------------------------------- C25
\* C25 as stated: the output carries no mobile convention: the host does not
\* begin with the label m and has no inner label m, and the path has no
\* segment mobile or m in front of another segment.
C25_AsStated ==
    \A g \in DOMAIN gen :
        Normalized(gen[g]) =>
           LET out == gen[g].normalizedUrl
           IN  /\ Len(out.host) > 1 => out.host[1] # "m"
               /\ \A i \in 2..(Len(out.host) - 1) : out.host[i] # "m"
               /\ \A i \in 1..(Len(out.path) - 1) :
                     out.path[i] \notin {"mobile", "m"}

\* ---------------------------------------------------------------------- C26
\* The popup with two generate requests (its own and another client's), the
\* polls it issues and one callback, against a store that answers every call
\* and loses nothing to expiry.
PopupGen == 2
PopupFetches == 2
PopupHook == 1
PopupFaults == 0
PopupNow == 0

PopupBodies == {BodyS, BodyBlank}
PopupOutcomes ==
    {Succeeded(OutputStr(<<"R">>)), Succeeded(OutputStr(<<" ">>)), Failed}

InitPopup == InitOf(PopupGen, PopupFetches, PopupHook)

NextPopup ==
    \/ handleGenerateSummary(PopupBodies, PopupFaults)
    \/ PopupFetch(PopupFaults)
    \/ \E f \in DOMAIN fet, ok \in Outcomes(PopupFaults) : FetGetArticle(f, ok)
    \/ \E f \in DOMAIN fet, ok \in Outcomes(PopupFaults) : FetGetLock(f, ok)
    \/ handleWebhook(PopupOutcomes, PopupFaults, PopupNow)
    \/ IndexPopup

SpecPopup == InitPopup /\ [][NextPopup]_vars

\* the popup takes the answer of the server to its generate request
TakesAnswer(status) ==
    /\ popup.step = "generating"
    /\ popup'.step = "rest"
    /\ Answered(gen[popup.call], status)

\* C26 as stated: when the generate endpoint answers the popup pending, the
\* popup goes to polling with the returned fingerprint and shows no error.
C26_AsStated ==
    [][ TakesAnswer("pending")
        => /\ popup'.loading = "polling"
           /\ popup'.hash = Val(gen[popup.call].res).hash
           /\ IsNull(popup'.error)
      ]_vars

\* ---------------------------------------------------------------------- C27
\* the popup, polling, takes the outcome of a poll it issued for its hash
TakesPoll(f) ==
    /\ popup.loading = "polling"
    /\ f \in DOMAIN popup.polls
    /\ popup.polls[f] = Val(popup.hash)
    /\ f \notin popup.taken
    /\ f \in popup'.taken

\* C27 as stated: a popup that is polling stays in the polling state with
\* its fingerprint when a poll is answered pending or fails, and leaves it
\* (loading idle, fingerprint cleared) when a poll is answered complete or
\* unknown.
C27_AsStated ==
    [][ \A f \in DOMAIN fet :
          TakesPoll(f)
          => IF /\ popup'.pollData # popup.pollData
                /\ Val(popup'.pollData).status \in {"complete", "unknown"}
             THEN /\ popup'.loading = "idle"
                  /\ IsNull(popup'.hash)
             ELSE /\ popup'.loading = "polling"
                  /\ popup'.hash = popup.hash
      ]_vars


\* ------------------------------------------------------------------ C28
\* The paths and the errors the helpers of index.ts are called with.
MaxPath == 4
RoutePieces == Routes \cup {"/", "?", "x"}
RoutePaths == UNION {[1..n -> RoutePieces] : n \in 0..MaxPath}

ErrorNames == {"Error", "TypeError"}
ErrorPrefixes == {<< >>, << "X", " " >>,
                  << "P", "R", "O", "J", "E", "C", "T", "_", "U", "R", "L", " " >>}
ErrorCores == {MustBeSet, << >>,
               << "M", "u", "s", "t", " ", "B", "e", " ", "S", "e", "t" >>,
               << "m", "u", "s", "t", " ", "b", "e" >>,
               << "m", "u", "s", "t", " ", " ", "b", "e", " ", "s", "e", "t" >>,
               << "o", "t", "h", "e", "r" >>}
ErrorSuffixes == {<< >>, << "t", "l", "e", "d" >>, << " ", "(", "e", ".", "g", ".", ")" >>}
Errors == {[name |-> n, message |-> p \o c \o s] :
              n \in ErrorNames, p \in ErrorPrefixes,
              c \in ErrorCores, s \in ErrorSuffixes}

InitIndex == InitOf(0, 0, 0)
NextIndex ==
    \/ \E k \in DOMAIN index, path \in RoutePaths : ExtractRoute(k, path)
    \/ \E k \in DOMAIN index, error \in Errors : HandleConfigurationError(k, error)
SpecIndex == InitIndex /\ [][NextIndex]_vars

\* the calls of extractRoute made so far
RouteCalls == {k \in DOMAIN index : index[k].called = "extractRoute"}
PathOf(k) == Val(index[k].arg)
RouteOf(k) == Val(index[k].outcome).value

\* the path is some text, "/", the name, and then nothing or a query string
NameThenQuery(path, name) ==
    \E i \in 1..Len(path) :
        /\ i + 1 <= Len(path)
        /\ path[i] = "/"
        /\ path[i + 1] = name
        /\ (i + 1 = Len(path) \/ path[i + 2] = "?")
EndsIn(path, name) ==
    /\ Len(path) >= 2
    /\ path[Len(path) - 1] = "/"
    /\ path[Len(path)] = name
HasQuery(path) == \E i \in 1..Len(path) : path[i] = "?"

\* C28: extractRoute never throws; it returns a route name only for a path
\* that is some text, a slash, that name, and then nothing or a query string,
\* and it returns null exactly when the path has that shape for none of the
\* three names; a path without a query string gets the name it ends in, and
\* the empty path, the root, an unknown name, a valid name followed by a
\* trailing slash and a valid name followed by a further segment get null.
C28_ExtractRoute ==
    \A k \in RouteCalls :
        LET path == PathOf(k)
            route == RouteOf(k)
        IN  /\ ~Val(index[k].outcome).thrown
            /\ ~IsNull(route) => /\ Val(route) \in Routes
                                 /\ NameThenQuery(path, Val(route))
            /\ IsNull(route) <=> \A name \in Routes : ~NameThenQuery(path, name)
            /\ ~HasQuery(path) =>
                 \A name \in Routes : route = Some(name) <=> EndsIn(path, name)
            /\ path \in {<< >>, << "/" >>, << "/", "x" >>} => IsNull(route)
            /\ \A name \in Routes :
                 path \in {<< "/", name, "/" >>, << "/", name, "/", "x" >>,
                           << "/", name, "x" >>, << "/", "x", name >>,
                           << name >>}
                    => IsNull(route)

C28_Witness ==
    /\ \E k \in RouteCalls :
          /\ PathOf(k) = << "/", "webhook", "?", "x" >>
          /\ RouteOf(k) = Some("webhook")


\* ------------------------------------------------------------------ C29
\* the calls of handleConfigurationError made so far
ConfigurationCalls ==
    {k \in DOMAIN index : index[k].called = "handleConfigurationError"}
ErrorOf(k) == Val(index[k].arg)
OutcomeOf(k) == Val(index[k].outcome)
ProjectUrlMustBeSet ==
    [name |-> "Error",
     message |-> << "P", "R", "O", "J", "E", "C", "T", "_", "U", "R", "L", " " >>
                    \o MustBeSet]

\* C29: handleConfigurationError returns a response exactly when the message
\* of the error contains 'must be set'; the response has status 500, the JSON
\* content type and the error 'Configuration error: ' followed by the message;
\* for every other message the call throws the very error it was given.
C29_ConfigurationError ==
    \A k \in ConfigurationCalls :
        LET error == ErrorOf(k)
            outcome == OutcomeOf(k)
        IN  /\ ~outcome.thrown <=> Includes(error.message, MustBeSet)
            /\ ~outcome.thrown =>
                 /\ outcome.value.status = 500
                 /\ outcome.value.contentType = "application/json"
                 /\ outcome.value.error = ConfigurationErrorPrefix \o error.message
            /\ outcome.thrown => outcome.value = error

C29_Witness ==
    \E k \in ConfigurationCalls :
        /\ ErrorOf(k) = ProjectUrlMustBeSet
        /\ ~OutcomeOf(k).thrown
        /\ OutcomeOf(k).value.error =
              ConfigurationErrorPrefix \o ProjectUrlMustBeSet.message


\* ---------------------------------------------------------------------- C30
\* C30 as stated: when generate answers processing with job id J and
\* fingerprint F, the store holds, at the answer, a Correlation Entry under J
\* with F, the headline of the request and its normalized URL.
C30_AsStated ==
    [][ \A g \in DOMAIN gen :
          ( /\ gen[g].pc = "setPrediction"
            /\ Answered(gen'[g], "processing") )
          => LET J == Val(Val(gen'[g].res).predictionId)
                 F == Val(Val(gen'[g].res).hash)
             IN  /\ J \in DOMAIN redis'.prediction
                 /\ redis'.prediction[J].val =
                       [hash |-> F,
                        headline |-> gen[g].body.headline,
                        normalizedUrl |-> gen[g].normalizedUrl]
      ]_vars


\* ---------------------------------------------------------------------- C31
\* {url: "https://example.com/a", snippet: "S1"}: a request without headline
BodyUntitled == Body(Some(UrlA), << >>, NoHtml, TextS)

\* Two generate requests, with and without a headline, a fetch and a
\* callback against a store that answers every call.
TitleGen == 2
TitleFetch == 1
TitleHook == 1
TitleFaults == 0
TitleNow == 0

TitleBodies == {BodyS, BodyUntitled, BodyBlank}
TitleQueries ==
    {Query(Some(HashOf(BodyS)), Null), Query(Some(HashOf(BodyUntitled)), Null)}
TitleOutcomes ==
    {Succeeded(OutputStr(<<" ", "R">>)),
     Succeeded(OutputArr(<< <<"Q">>, <<"P">> >>)), Failed}

InitTitle == InitOf(TitleGen, TitleFetch, TitleHook)
NextTitle ==
    \/ handleGenerateSummary(TitleBodies, TitleFaults)
    \/ handleFetchSummary(TitleQueries, TitleFaults)
    \/ handleWebhook(TitleOutcomes, TitleFaults, TitleNow)
SpecTitle == InitTitle /\ [][NextTitle]_vars

\* invocation w of the Completion Handler has written the Cache Entry of F
WroteArticle(w, F) ==
    /\ hook[w].branch = "succeeded"
    /\ hook[w].pc \notin {"idle", "setArticle"}
    /\ "set" \notin hook[w].faults
    /\ Val(hook[w].predictionData).hash = F

\* the answer comes from a succeeded callback: its summary is the output,
\* joined with newlines when it is a sequence, trimmed, and its headline is
\* the headline of the callback's Correlation Entry
FromCallback(res) ==
    \E w \in DOMAIN hook :
        /\ WroteArticle(w, Val(res.hash))
        /\ Val(res.summary).summary = Trim(SummaryText(hook[w].payload.output))
        /\ Val(res.summary).headline = Val(hook[w].predictionData).headline

\* C31 as stated: every complete answer of fetch and of generate for a
\* fingerprint carries the trimmed (and, for a sequence, newline-joined)
\* output of a succeeded callback that wrote the Cache Entry of that
\* fingerprint, and the headline recorded in that callback's Correlation
\* Entry.
C31_AsStated ==
    /\ \A g \in DOMAIN gen :
          Answered(gen[g], "complete") => FromCallback(Val(gen[g].res))
    /\ \A f \in DOMAIN fet :
          Answered(fet[f], "complete") => FromCallback(Val(fet[f].res))


\* ---------------------------------------------------------------------- C32
\* texts around the 300 characters that enter the fingerprint: exactly 300
\* characters, the same after one leading space, and the same followed by
\* further content
TextLong == Str(HashPrefixLen, "a")
TextPadded == << " " >> \o TextLong
TextBeyond == TextLong \o << "z" >>
BodyLong == Body(Some(UrlA), HeadlineH, NoHtml, TextLong)
BodyPadded == Body(Some(UrlA), HeadlineH, NoHtml, TextPadded)
BodyBeyond == Body(Some(UrlA), HeadlineH, NoHtml, TextBeyond)

\* Two generate requests and one callback, with texts that agree in their
\* first 300 characters after trimming, against a store that answers every
\* call and loses nothing to expiry.
TextGen == 2
TextHook == 1
TextFaults == 0
TextNow == 0

TextBodies == {BodyLong, BodyPadded, BodyBeyond, BodyBlank}
TextOutcomes == {Succeeded(OutputStr(<<"R">>)), Failed}

InitText == InitOf(TextGen, 0, TextHook)
NextText ==
    \/ handleGenerateSummary(TextBodies, TextFaults)
    \/ handleWebhook(TextOutcomes, TextFaults, TextNow)
SpecText == InitText /\ [][NextText]_vars

\* the resolved text of a request, trimmed and then truncated to 300
\* characters
TrimmedPrefix(body) == Substring(Trim(ResolveText(body)), HashPrefixLen)

\* C32 as stated: two generate requests that computed a fingerprint, with
\* the same normalized URL, the same trimmed headline and texts that are
\* equal after trimming and truncating to 300 characters, computed the same
\* fingerprint.
C32_AsStated ==
    \A g, h \in DOMAIN gen :
        ( /\ gen[g].hash # NoHash
          /\ gen[h].hash # NoHash
          /\ gen[g].normalizedUrl = gen[h].normalizedUrl
          /\ Trim(gen[g].body.headline) = Trim(gen[h].body.headline)
          /\ TrimmedPrefix(gen[g].body) = TrimmedPrefix(gen[h].body) )
        => gen[g].hash = gen[h].hash


\* ---------------------------------------------------------------------- C33
\* Two generate requests and one callback against a store that answers every
\* call; every entry that carries a TTL lapses when its time has come.
TtlGen == 2
TtlHook == 1
TtlFaults == 0
TtlNow == 0

TtlBodies == {BodyS, BodyBlank}
TtlOutcomes == {Succeeded(OutputStr(<<"R">>)), Failed}
TtlKeys ==
    {urlKey(normalizeUrl(Val(body.url))) : body \in TtlBodies}
    \cup {articleKey(HashOf(body)) : body \in TtlBodies}
    \cup {lockKey(HashOf(body)) : body \in TtlBodies}
    \cup {predictionKey(j) : j \in 1..TtlGen}

InitTtl == InitOf(TtlGen, 0, TtlHook)
NextTtl ==
    \/ handleGenerateSummary(TtlBodies, TtlFaults)
    \/ handleWebhook(TtlOutcomes, TtlFaults, TtlNow)
    \/ \E key \in TtlKeys : TtlLapse(key)
SpecTtl ==
    /\ InitTtl
    /\ [][NextTtl]_vars
    /\ \A key \in TtlKeys : WF_vars(TtlLapse(key))

\* the TTL of the entries of a key space, in seconds
TtlOf(ns) ==
    CASE ns = "url" -> 7 * 24 * 3600
      [] ns = "article" -> 7 * 24 * 3600
      [] ns = "lock" -> 60
      [] ns = "prediction" -> 3600

\* C33: every entry in the store carries the TTL of its kind (URL Index
\* Entry and Cache Entry 7 days, Dedup Lock 60 seconds, Correlation Entry 1
\* hour, which is longer than the lock's), every entry that is present is
\* absent at some later time, and once no request and no callback takes a
\* further step the store becomes and stays empty.
C33_EntriesExpire ==
    /\ [](\A ns \in Namespaces : \A id \in DOMAIN redis[ns] :
             /\ redis[ns][id].ttl = TtlOf(ns)
             /\ redis[ns][id].ttl > 0)
    /\ [](PredictionTtl > LockTtl)
    /\ \A key \in TtlKeys : Present(key) ~> ~Present(key)
    /\ <>[](\A ns \in Namespaces : DOMAIN redis[ns] = {})

\* entries of all four kinds have been written and have lapsed, and the
\* store is empty
C33_Witness ==
    /\ \A ns \in Namespaces : expired[ns] # {}
    /\ \A ns \in Namespaces : DOMAIN redis[ns] = {}


\* ---------------------------------------------------------------------- C34
\* C34 as stated: when a generate request calls the provider for a
\* fingerprint, the Cache Entry of that fingerprint is not in the store.
C34_AsStated ==
    [][ \A g \in DOMAIN gen :
          ( /\ gen[g].pc = "createPrediction"
            /\ gen'[g] # gen[g] )
          => ~Present(articleKey(gen[g].hash))
      ]_vars


\* ---------------------------------------------------------------------- C35
\* request g has acquired the lock of F and has neither called the provider
\* nor released the lock: no job of g exists
HoldsBeforeSubmission(g, F) ==
    /\ gen[g].pc = "createPrediction"
    /\ gen[g].lockAcquired
    /\ gen[g].hash = F

\* C35 as stated, for a holder that has not submitted its job yet: while no
\* lock has lapsed, the lock of a request that has acquired it and has not
\* yet called the provider is not deleted by a step of the Completion
\* Handler (whose callback can only be that of a job submitted under an
\* earlier acquisition).
C35_AsStated ==
    [][ \A w \in DOMAIN hook : \A g \in DOMAIN gen :
          LET F == Val(hook[w].predictionData).hash
          IN  ( /\ hook[w].pc \in {"delLock", "delLockFailed"}
                /\ hook'[w] # hook[w]
                /\ expired.lock = {}
                /\ HoldsBeforeSubmission(g, F)
                /\ Present(lockKey(F)) )
              => F \in DOMAIN redis'.lock
      ]_vars


\* ---------------------------------------------------------------------- C36
\* Two generate requests, one fetch and one callback against a store that
\* answers every call and loses nothing to expiry: the lock of a request
\* whose job was accepted is held until the Completion Handler deletes it.
DuringGen == 2
DuringFetch == 1
DuringHook == 1
DuringFaults == 0
DuringNow == 0

DuringBodies == {BodyS, BodyBlank}
DuringOutcomes == {Succeeded(OutputStr(<<"R">>)), Failed}

InitDuring == InitOf(DuringGen, DuringFetch, DuringHook)
NextDuring ==
    \/ handleGenerateSummary(DuringBodies, DuringFaults)
    \/ handleFetchSummary(Queries, DuringFaults)
    \/ handleWebhook(DuringOutcomes, DuringFaults, DuringNow)
SpecDuring == InitDuring /\ [][NextDuring]_vars

\* the Completion Handler has taken up, or has finished handling, a succeeded
\* callback for F; its Correlation Entry was present, so the request that
\* holds the lock had acquired it before
HandlesSucceeded(w, F) ==
    /\ hook[w].branch = "succeeded"
    /\ Val(hook[w].predictionData).hash = F

\* C36 as stated: a fetch by F that has read the Cache Entry as absent and
\* reads the lock while or after the Completion Handler handles a succeeded
\* callback for F (it ran concurrently with the handling: it looked for the
\* Cache Entry before the handler wrote it) is answered pending or complete
\* and not unknown.
C36_AsStated ==
    [][ \A f \in DOMAIN fet : \A w \in DOMAIN hook :
          ( /\ fet[f].pc = "getLock"
            /\ fet'[f] # fet[f]
            /\ ~IsNull(fet[f].query.hash)
            /\ HandlesSucceeded(w, Val(fet[f].hash))
            /\ nFaults' = 0 )
          => \/ Answered(fet'[f], "pending")
             \/ Answered(fet'[f], "complete")
      ]_vars


\* ---------------------------------------------------------------------- C37
\* with this step invocation w ends the handling of the first callback for
\* job j, a succeeded callback with output, the store having answered every
\* call and lost nothing to expiry
EndsFirstSucceeded(w, j) ==
    /\ ~Done(hook[w])
    /\ Done(hook'[w])
    /\ ~hook'[w].payload.malformed
    /\ hook'[w].payload.id = j
    /\ hook'[w].payload.status = "succeeded"
    /\ Truthy(hook'[w].payload.output)
    /\ \A v \in DOMAIN hook \ {w} :
          Started(hook[v]) => hook[v].payload.id # j
    /\ nFaults' = 0
    /\ NExpired = 0

\* C37 as stated: when the Completion Handler has handled the succeeded
\* callback with output of a job that the provider accepted, the Cache Entry
\* of the fingerprint of the job is in the store and its lock is not,
\* whether or not the Correlation Entry had been written when the callback
\* came.
C37_AsStated ==
    [][ \A w \in DOMAIN hook : \A j \in 1..Len(jobs) :
          EndsFirstSucceeded(w, j)
          => /\ jobs[j].hash \in DOMAIN redis'.article
             /\ jobs[j].hash \notin DOMAIN redis'.lock
      ]_vars


\* ---------------------------------------------------------------------- C38
\* C38 as stated: when the conditional set of a generate request is followed
\* by the answer pending, the Dedup Lock of its fingerprint was in the store
\* when the conditional set was executed.
C38_AsStated ==
    [][ \A g \in DOMAIN gen :
          ( /\ gen[g].pc = "setnx"
            /\ Answered(gen'[g], "pending") )
          => Present(lockKey(gen[g].hash))
      ]_vars


\* ---------------------------------------------------------------------- C39
\* the Cache Entry of F holds the output of job j, as invocation w of the
\* Completion Handler built it from the callback of j
BuiltFrom(F, j, w) ==
    /\ hook[w].branch = "succeeded"
    /\ hook[w].pc \notin {"idle", "setArticle"}
    /\ hook[w].payload.id = j
    /\ redis.article[F].val = Val(hook[w].summary)
    /\ redis.article[F].val.summary = Trim(SummaryText(hook[w].payload.output))

\* job j was submitted by a generate request that computed F and had
\* acquired the lock of F
SubmittedByHolder(j, F) ==
    /\ jobs[j].hash = F
    /\ gen[jobs[j].by].hash = F
    /\ gen[jobs[j].by].lockAcquired
    /\ gen[jobs[j].by].prediction = Some(j)

\* every URL Index Entry maps the normalized URL of some generate request to
\* the fingerprint that request computed
UrlIndexComputed ==
    \A u \in DOMAIN redis.url :
        \E g \in DOMAIN gen :
            /\ gen[g].normalizedUrl = u
            /\ gen[g].hash = redis.url[u].val
            /\ gen[g].hash # NoHash

\* C39: every Cache Entry under a fingerprint F was built from the output of
\* a job submitted by a generate request that computed exactly F and had
\* acquired the lock of F before it submitted the job, and every URL Index
\* Entry maps a normalized URL to a fingerprint that a generate request for
\* that normalized URL computed.
C39_Provenance ==
    /\ \A F \in DOMAIN redis.article :
          \E j \in 1..Len(jobs) : \E w \in DOMAIN hook :
              /\ BuiltFrom(F, j, w)
              /\ SubmittedByHolder(j, F)
    /\ UrlIndexComputed

\* a Cache Entry and a URL Index Entry that points to it
C39_Witness ==
    \E F \in DOMAIN redis.article : \E u \in DOMAIN redis.url :
        /\ redis.url[u].val = F
        /\ \E j \in 1..Len(jobs) : SubmittedByHolder(j, F)

\* C39 as stated: the request whose job the Cache Entry was built from held
\* the lock at the submission: the lock was in the store when it called the
\* provider.
C39_AsStated ==
    /\ \A F \in DOMAIN redis.article :
          \E j \in 1..Len(jobs) : \E w \in DOMAIN hook :
              /\ BuiltFrom(F, j, w)
              /\ SubmittedByHolder(j, F)
              /\ jobs[j].held
    /\ UrlIndexComputed


\* ---------------------------------------------------------------------- C40
\* https://m.m.example.com/a
UrlDoubleMobile == Url(<<"m", "m", "example", "com">>, <<"a">>, << >>, FALSE)
\* {url: "https://m.m.example.com/a", headline: "H", snippet: "S1"}
BodyDoubleMobile == Body(Some(UrlDoubleMobile), HeadlineH, NoHtml, TextS)

\* Two generate requests, one callback and one fetch by url in which the
\* client passes back the normalized URL of a generate request, against a
\* store that answers every call and loses nothing to expiry.
AgainGen == 2
AgainFetch == 1
AgainHook == 1
AgainFaults == 0
AgainNow == 0

AgainBodies == {BodyS, BodyDoubleMobile, BodyBlank}
AgainOutcomes == {Succeeded(OutputStr(<<"R">>)), Failed}
\* part_000:164-171: fetch-summary?url=<a URL that normalizeUrl returned>
PassedBack ==
    {Query(Null, Some(gen[g].normalizedUrl)) :
        g \in {h \in DOMAIN gen : gen[h].hash # NoHash}}

InitAgain == InitOf(AgainGen, AgainFetch, AgainHook)
NextAgain ==
    \/ handleGenerateSummary(AgainBodies, AgainFaults)
    \/ handleFetchSummary(PassedBack, AgainFaults)
    \/ handleWebhook(AgainOutcomes, AgainFaults, AgainNow)
SpecAgain == InitAgain /\ [][NextAgain]_vars

\* C40 as stated: a fetch by a url that normalizeUrl returned for a generate
\* request addresses the URL Index Entry of that url: when the entry is in
\* the store and the store answers, the fetch goes on with the fingerprint
\* of the entry.
C40_AsStated ==
    [][ \A f \in DOMAIN fet :
          ( /\ fet[f].pc = "idle"
            /\ fet'[f] # fet[f]
            /\ ~IsNull(fet'[f].query.url)
            /\ Val(fet'[f].query.url) \in DOMAIN redis.url
            /\ nFaults' = nFaults )
          => fet'[f].hash = Some(redis.url[Val(fet'[f].query.url)].val)
      ]_vars
====
